---- MODULE Spec2Model ----
(***************************************************************************)
(* A model of the PEG parser library `parse' (package parse):              *)
(*   - the compiled parser graph and the left-recursion analysis           *)
(*     (isLRPossible and the IsLRPossible methods of every parser kind),   *)
(*   - the parse engine parseContext.parse with its packrat table and the  *)
(*     seed-growing loop for left recursion,                               *)
(*   - the ParseValue methods of the parser kinds,                         *)
(*   - the integer literal primitives parseUint64 / parseInt64,            *)
(*   - the WriteValue methods behind Write and Append,                     *)
(*   - the string and character literals (parseUnicodeValue, parseString), *)
(*   - the text of a parse error (Error.Error),                            *)
(*   - the comment skippers built on SkipMultilineComment.                 *)
(*                                                                         *)
(* Input strings are tuples of one-character strings; Go offsets are       *)
(* 0-based, so the byte str[i] of the source is str[i+1] here.             *)
(* A Go value (reflect.Value) is a tagged tuple:                           *)
(*   <<"str", chars>>, <<"int", n>>, <<"nil">>, <<"ptr", v>>,              *)
(*   <<"slice", elems>>, <<"struct", fields>>,                             *)
(*   <<"firstof", Field, fields>>, <<"user">>.                             *)
(***************************************************************************)
EXTENDS Integers, Sequences, FiniteSets, TLC

VARIABLES
    lr,        \* idHolder.lr of every compiled parser (process-wide)
    phase,     \* "idle" before the call, "done" after Parse / compile returned
    root,      \* the parser compiled for the type of the result
    str,       \* the input of the call
    params,    \* Options: PackratEnabled, SkipWhite
    user,      \* behaviour of the user supplied Parser capability
    result,    \* the value `result' points to
    ret,       \* what Parse returned: new_location, err, panic
    ctx,       \* the parseContext of the call (packrat, recursiveLocations)
    hist,      \* ghost: what happened during the call
    compiled,  \* ghost: the roots handed to compile so far, in order
    num,       \* state of the integer-literal specification
    emitted,   \* what Append(nil, result) returned after the Parse
    fn         \* state of the specifications of the stand-alone functions

vars == <<lr, phase, root, str, params, user, result, ret, ctx, hist, compiled, num, emitted, fn>>

---------------------------------------------------------------------------
(* Bounds of the model *)

MaxLen == 5        \* longest input of the left-recursive roots
MaxLenW == 3       \* longest input of the other roots
MaxLenL == 6       \* longest input of the lookahead grammar abcS
MaxDepth == 8      \* nesting of ParseValue calls after which the Go stack is taken to overflow
MaxCompiles == 3   \* compile calls in one behaviour of SpecCompile
MaxGrow == 6       \* seed replacements in one Parse after which the loop is taken to diverge
MaxNumLen == 5     \* longest input of the integer parsers in SpecNum
MaxPrior == 1      \* compile calls before the Parse in one behaviour of SpecCalls
MaxLenC == 1       \* longest input of the Parse in SpecCalls
MaxEscLen == 4     \* longest text between the quotes of a literal in SpecEsc
MaxSkipLen == 7    \* longest input of the comment skippers in SpecSkip
MaxFields == 2     \* most fields of a struct type handed to compile in SpecTypes
MaxErrLen == 4     \* longest input of Error.Error in SpecErr

---------------------------------------------------------------------------
(* Strings *)

Max(a, b) == IF a >= b THEN a ELSE b

SubStr(s, from, to) == [i \in 1..(to - from) |-> s[from + i]]   \* s[from:to] of Go

WhiteChars == {" ", "\t", "\n", "\r"}

RECURSIVE SkipSpaces(_, _)
SkipSpaces(s, loc) ==
    IF loc < Len(s)
    THEN IF s[loc + 1] \notin WhiteChars THEN loc ELSE SkipSpaces(s, loc + 1)
    ELSE Len(s)

strAt(s, loc, lit) ==
    IF loc + Len(lit) <= Len(s)
    THEN \A i \in 1..Len(lit) : s[loc + i] = lit[i]
    ELSE FALSE

---------------------------------------------------------------------------
(* The compiled parsers.  compile keeps one parser per (type, tag) in      *)
(* _compiledParsers, so a type used with the same tag in two places is one *)
(* node.  The table below is what compileType builds for these Go types:   *)
(*                                                                         *)
(*   type Rt struct { FirstOf; A *struct{ A Rt; _ string `regexp:"-"`;     *)
(*                    N string `regexp:"[0-9]+"` }; N string `regexp:"[0-9]+"` } *)
(*   type Xt struct { E *Et }                                              *)
(*   type Et struct { FirstOf; M struct{ X Xt; _ string `regexp:"-"`;      *)
(*                    N string `regexp:"[0-9]+"` }; N string `regexp:"[0-9]+"` } *)
(*   type T  struct { A string `literal:"a"`; O *string `parse:"?" literal:"b"` } *)
(*   type W  struct { FirstOf; P struct{ X T; _ string `literal:"c"` };    *)
(*                    Q struct{ X T; _ string `literal:"d"` };             *)
(*                    R string `literal:"a"` }                             *)
(*   type TB struct { A string `literal:"a"`; B string `literal:"b"` }     *)
(*   type V  struct { O *TB `parse:"?"`; _ string `literal:"c"` }          *)
(*   type LL [][]uint64                                                    *)
(*   type DL struct { L [][]uint64 `delimiter:","` }                       *)
(*   type DU struct { L []uint64 `delimiter:","` }                         *)
(*   type UR struct { A string `literal:"a"`; E myEOF }                    *)
(*   type Z  struct { A *string `parse:"?" literal:"a"`;                   *)
(*                    B *string `parse:"?" literal:"a"`; Z *Z }            *)
(*   type Y  struct { Z *Z }                                               *)
(*   type St struct { O *string `parse:"?" literal:"a" set:"SetO"`;        *)
(*                    B string `literal:"b"` }                             *)
(*   type hello struct { A string `regexp:"[hH]ello"`;                     *)
(*                    _ string `literal:","`;                              *)
(*                    _ *string `set:"SetW" parse:"?" regexp:"[wW]orld"` } *)
(*     (the Hello grammar: the fields of tmp of the tests up to Loc)       *)
(*   type abcS struct { _ struct{ A abcA; C string `regexp:"c"` } `parse:"&"`; *)
(*                    A []struct{ A string `regexp:"a"` } `parse:"+"`;     *)
(*                    B abcB;                                              *)
(*                    _ struct{ FirstOf; A string `regexp:"a"`;            *)
(*                         B string `regexp:"b"`; C string `regexp:"c"` } `parse:"!"` } *)
(*   type abcA struct { A string `regexp:"a"`; A1 *abcA `parse:"?"`;       *)
(*                    B string `regexp:"b"` }                              *)
(*   type abcB struct { B string `regexp:"b"`; B1 *abcB `parse:"?"`;       *)
(*                    C string `regexp:"c"` }                              *)
(* (a struct compiled for a field tagged `parse:"?"' is another parser     *)
(* than the one compiled for the same type without a tag)                  *)
(***************************************************************************)

fieldNotAny == 1
fieldFollowedBy == 2

Num == 1
Dash == 2
Rt == 3
PtrRtA == 4
RtA == 5
Xt == 6
PtrEt == 7
Et == 8
EtM == 9
LitA == 10
OptB == 11
LitBq == 12
T == 13
W == 14
WP == 15
WQ == 16
LitC == 17
LitD == 18
V == 19
OptTB == 20
TB == 21
LitB == 22
LL == 23
LU == 24
U64 == 25
DL == 26
DLL == 27
UR == 28
EOF == 29
Z == 30
OptA == 31
LitAq == 32
PtrZ == 33
Y == 34
G == 35
GP == 36
GQ == 37
St == 38
OptAs == 39
LitAs == 40
RxA == 41
RxB == 42
RxC == 43
abcS == 44
abcS1 == 45
abcA == 46
OptAbcA == 47
abcAq == 48
abcSA == 49
abcSAe == 50
abcB == 51
OptAbcB == 52
abcBq == 53
abcSN == 54
hello == 55
RxHello == 56
LitComma == 57
OptWorld == 58
RxWorld == 59
MA == 60
AP == 61
PtrB == 62
MB == 63
BP == 64
LitX == 65
LitY == 66
DU == 67
DUL == 68

Fld(name, index, p, flags) == [Name |-> name, Index |-> index, Parse |-> p, Flags |-> flags, Set |-> ""]

\* a field with a `set' tag
FldSet(name, index, p, flags, set) == [Fld(name, index, p, flags) EXCEPT !.Set = set]

Node == <<
    (* 1 Num    *) [kind |-> "regexp", cls |-> {"1"}, quant |-> "plus"],
    (* 2 Dash   *) [kind |-> "regexp", cls |-> {"-"}, quant |-> "one"],
    (* 3 Rt     *) [kind |-> "firstOf", Fields |-> <<Fld("A", 1, PtrRtA, 0), Fld("N", 2, Num, 0)>>],
    (* 4 PtrRtA *) [kind |-> "ptr", Parser |-> RtA, Optional |-> FALSE],
    (* 5 RtA    *) [kind |-> "sequence", Fields |-> <<Fld("A", 0, Rt, 0), Fld("_", -1, Dash, 0), Fld("N", 2, Num, 0)>>],
    (* 6 Xt     *) [kind |-> "sequence", Fields |-> <<Fld("E", 0, PtrEt, 0)>>],
    (* 7 PtrEt  *) [kind |-> "ptr", Parser |-> Et, Optional |-> FALSE],
    (* 8 Et     *) [kind |-> "firstOf", Fields |-> <<Fld("M", 1, EtM, 0), Fld("N", 2, Num, 0)>>],
    (* 9 EtM    *) [kind |-> "sequence", Fields |-> <<Fld("X", 0, Xt, 0), Fld("_", -1, Dash, 0), Fld("N", 2, Num, 0)>>],
    (* 10 LitA  *) [kind |-> "literal", Literal |-> <<"a">>],
    (* 11 OptB  *) [kind |-> "ptr", Parser |-> LitBq, Optional |-> TRUE],
    (* 12 LitBq *) [kind |-> "literal", Literal |-> <<"b">>],
    (* 13 T     *) [kind |-> "sequence", Fields |-> <<Fld("A", 0, LitA, 0), Fld("O", 1, OptB, 0)>>],
    (* 14 W     *) [kind |-> "firstOf", Fields |-> <<Fld("P", 1, WP, 0), Fld("Q", 2, WQ, 0), Fld("R", 3, LitA, 0)>>],
    (* 15 WP    *) [kind |-> "sequence", Fields |-> <<Fld("X", 0, T, 0), Fld("_", -1, LitC, 0)>>],
    (* 16 WQ    *) [kind |-> "sequence", Fields |-> <<Fld("X", 0, T, 0), Fld("_", -1, LitD, 0)>>],
    (* 17 LitC  *) [kind |-> "literal", Literal |-> <<"c">>],
    (* 18 LitD  *) [kind |-> "literal", Literal |-> <<"d">>],
    (* 19 V     *) [kind |-> "sequence", Fields |-> <<Fld("O", 0, OptTB, 0), Fld("_", -1, LitC, 0)>>],
    (* 20 OptTB *) [kind |-> "ptr", Parser |-> TB, Optional |-> TRUE],
    (* 21 TB    *) [kind |-> "sequence", Fields |-> <<Fld("A", 0, LitA, 0), Fld("B", 1, LitB, 0)>>],
    (* 22 LitB  *) [kind |-> "literal", Literal |-> <<"b">>],
    (* 23 LL    *) [kind |-> "slice", Parser |-> LU, Delimiter |-> <<>>, Min |-> 0],
    (* 24 LU    *) [kind |-> "slice", Parser |-> U64, Delimiter |-> <<>>, Min |-> 0],
    (* 25 U64   *) [kind |-> "uint"],
    (* 26 DL    *) [kind |-> "sequence", Fields |-> <<Fld("L", 0, DLL, 0)>>],
    (* 27 DLL   *) [kind |-> "slice", Parser |-> LU, Delimiter |-> <<",">>, Min |-> 0],
    (* 28 UR    *) [kind |-> "sequence", Fields |-> <<Fld("A", 0, LitA, 0), Fld("E", 1, EOF, 0)>>],
    (* 29 EOF   *) [kind |-> "parser"],
    (* 30 Z     *) [kind |-> "sequence", Fields |-> <<Fld("A", 0, OptA, 0), Fld("B", 1, OptA, 0), Fld("Z", 2, PtrZ, 0)>>],
    (* 31 OptA  *) [kind |-> "ptr", Parser |-> LitAq, Optional |-> TRUE],
    (* 32 LitAq *) [kind |-> "literal", Literal |-> <<"a">>],
    (* 33 PtrZ  *) [kind |-> "ptr", Parser |-> Z, Optional |-> FALSE],
    (* 34 Y     *) [kind |-> "sequence", Fields |-> <<Fld("Z", 0, PtrZ, 0)>>],
    (* 35 G     *) [kind |-> "firstOf", Fields |-> <<Fld("P", 1, GP, 0), Fld("Q", 2, GQ, 0), Fld("R", 3, LitA, 0)>>],
    (* 36 GP    *) [kind |-> "sequence", Fields |-> <<Fld("X", 0, TB, 0), Fld("_", -1, LitC, 0)>>],
    (* 37 GQ    *) [kind |-> "sequence", Fields |-> <<Fld("X", 0, TB, 0), Fld("_", -1, LitD, 0)>>],
    (* 38 St    *) [kind |-> "sequence", Fields |-> <<FldSet("O", 0, OptAs, 0, "SetO"), Fld("B", 1, LitB, 0)>>],
    (* 39 OptAs *) [kind |-> "ptr", Parser |-> LitAs, Optional |-> TRUE],
    (* 40 LitAs *) [kind |-> "literal", Literal |-> <<"a">>],
    (* 41 RxA   *) [kind |-> "regexp", cls |-> {"a"}, quant |-> "one"],
    (* 42 RxB   *) [kind |-> "regexp", cls |-> {"b"}, quant |-> "one"],
    (* 43 RxC   *) [kind |-> "regexp", cls |-> {"c"}, quant |-> "one"],
    (* 44 abcS  *) [kind |-> "sequence", Fields |-> <<Fld("_", -1, abcS1, fieldFollowedBy), Fld("A", 1, abcSA, 0),
                                                     Fld("B", 2, abcB, 0), Fld("_", -1, abcSN, fieldNotAny)>>],
    (* 45 abcS1 *) [kind |-> "sequence", Fields |-> <<Fld("A", 0, abcA, 0), Fld("C", 1, RxC, 0)>>],
    (* 46 abcA  *) [kind |-> "sequence", Fields |-> <<Fld("A", 0, RxA, 0), Fld("A1", 1, OptAbcA, 0), Fld("B", 2, RxB, 0)>>],
    (* 47 OptAbcA *) [kind |-> "ptr", Parser |-> abcAq, Optional |-> TRUE],
    (* 48 abcAq *) [kind |-> "sequence", Fields |-> <<Fld("A", 0, RxA, 0), Fld("A1", 1, OptAbcA, 0), Fld("B", 2, RxB, 0)>>],
    (* 49 abcSA *) [kind |-> "slice", Parser |-> abcSAe, Delimiter |-> <<>>, Min |-> 1],
    (* 50 abcSAe *) [kind |-> "sequence", Fields |-> <<Fld("A", 0, RxA, 0)>>],
    (* 51 abcB  *) [kind |-> "sequence", Fields |-> <<Fld("B", 0, RxB, 0), Fld("B1", 1, OptAbcB, 0), Fld("C", 2, RxC, 0)>>],
    (* 52 OptAbcB *) [kind |-> "ptr", Parser |-> abcBq, Optional |-> TRUE],
    (* 53 abcBq *) [kind |-> "sequence", Fields |-> <<Fld("B", 0, RxB, 0), Fld("B1", 1, OptAbcB, 0), Fld("C", 2, RxC, 0)>>],
    (* 54 abcSN *) [kind |-> "firstOf", Fields |-> <<Fld("A", 1, RxA, 0), Fld("B", 2, RxB, 0), Fld("C", 3, RxC, 0)>>],
    (* 55 hello *) [kind |-> "sequence", Fields |-> <<Fld("A", 0, RxHello, 0), Fld("_", -1, LitComma, 0),
                                                      FldSet("_", -1, OptWorld, 0, "SetW")>>],
    (* 56 RxHello *) [kind |-> "regexp", cls |-> {"h", "H"}, quant |-> "word", rest |-> <<"e", "l", "l", "o">>],
    (* 57 LitComma *) [kind |-> "literal", Literal |-> <<",">>],
    (* 58 OptWorld *) [kind |-> "ptr", Parser |-> RxWorld, Optional |-> TRUE],
    (* 59 RxWorld *) [kind |-> "regexp", cls |-> {"w", "W"}, quant |-> "word", rest |-> <<"o", "r", "l", "d">>],
    (* 60 MA    *) [kind |-> "firstOf", Fields |-> <<Fld("P", 1, AP, 0), Fld("Q", 2, LitA, 0)>>],
    (* 61 AP    *) [kind |-> "sequence", Fields |-> <<Fld("B", 0, PtrB, 0), Fld("_", -1, LitX, 0)>>],
    (* 62 PtrB  *) [kind |-> "ptr", Parser |-> MB, Optional |-> FALSE],
    (* 63 MB    *) [kind |-> "firstOf", Fields |-> <<Fld("P", 1, BP, 0), Fld("Q", 2, MA, 0)>>],
    (* 64 BP    *) [kind |-> "sequence", Fields |-> <<Fld("B", 0, PtrB, 0), Fld("_", -1, LitY, 0)>>],
    (* 65 LitX  *) [kind |-> "literal", Literal |-> <<"x">>],
    (* 66 LitY  *) [kind |-> "literal", Literal |-> <<"y">>],
    (* 67 DU    *) [kind |-> "sequence", Fields |-> <<Fld("L", 0, DUL, 0)>>],
    (* 68 DUL   *) [kind |-> "slice", Parser |-> U64, Delimiter |-> <<",">>, Min |-> 0]
>>

Nodes == 1..Len(Node)

(* The types Parse is called with, and the inputs tried for each *)
LRRoots == {Rt, Xt}
Roots == {Rt, Xt, W, V, G, LL, DL, DU, UR, Z, Y, St, hello}

Alphabet(r) ==
    CASE r \in LRRoots -> {"1", "-", " "}
      [] r \in {W, G} -> {"a", "b", "c", "d"}
      [] r = V -> {"a", "b", "c"}
      [] r \in {LL, DL, DU} -> {"0", "1", " ", ","}
      [] r = UR -> {"a", " "}
      [] r = St -> {"a", "b", " "}
      [] r = abcS -> {"a", "b", "c"}
      [] r = MA -> {"a", "x", "y"}
      [] OTHER -> {"a", " "}

Strings(S, n) == UNION {[1..k -> S] : k \in 0..n}

\* the input of TestParse for the Hello grammar
HelloInput == <<"H", "e", "l", "l", "o", " ", " ", " ", " ", ",", " ", "\n", "\t",
                "w", "o", "r", "l", "d">>

\* s without its i-th byte
Without(s, i) == SubStr(s, 0, i - 1) \o SubStr(s, i, Len(s))

\* no letter more than n times in a row
RunsWithin(s, n) == \A i \in 1..(Len(s) - n) : \E j \in 1..n : s[i + j] # s[i]

\* the inputs of hello: the test's input, what it begins with, and what is
\* left of it when one byte is missing;
\* the inputs of abcS: its rules A and B nest as deep as a run of letters is
\* long, and the runs tried are those of the longest member a^n b^n c^n
Inputs(r) ==
    IF r = abcS
    THEN {s \in Strings(Alphabet(r), MaxLenL) : RunsWithin(s, MaxLenL \div 3)}
    ELSE IF r = hello
    THEN {SubStr(HelloInput, 0, k) : k \in 0..Len(HelloInput)}
             \cup {Without(HelloInput, i) : i \in 1..Len(HelloInput)}
    ELSE Strings(Alphabet(r), IF r \in LRRoots THEN MaxLen ELSE MaxLenW)

(* reflect.Zero of the type a parser was compiled for *)
RECURSIVE Zero(_), ZeroFields(_, _)
ZeroFields(fields, i) ==
    IF i > Len(fields) THEN <<>>
    ELSE <<Zero(fields[i].Parse)>> \o ZeroFields(fields, i + 1)

Zero(p) ==
    LET n == Node[p] IN
    CASE n.kind \in {"regexp", "literal", "string"} -> <<"str", <<>>>>
      [] n.kind \in {"int", "uint", "location"} -> <<"int", 0>>
      [] n.kind = "ptr" -> <<"nil">>
      [] n.kind = "slice" -> <<"slice", <<>>>>
      [] n.kind = "parser" -> <<"user">>
      [] n.kind = "sequence" -> <<"struct", ZeroFields(n.Fields, 1)>>
      [] n.kind = "firstOf" -> <<"firstof", "", ZeroFields(n.Fields, 1)>>

---------------------------------------------------------------------------
(* Left-recursion analysis.  The lr fields are written while the walk is   *)
(* running, so every operator takes the lr map L and returns the new one.  *)
(* `parsers' is the list of parsers on the current left spine; only the    *)
(* IDs of its members are looked at, so it is a set here.                  *)

LRResult(L, possible, can) == [lr |-> L, possible |-> possible, canParseEmpty |-> can]

RECURSIVE isLRPossible(_, _, _), IsLRPossible(_, _, _), field_IsLRPossible(_, _, _)
RECURSIVE sequenceParser_IsLRPossible(_, _, _, _), firstOfParser_IsLRPossible(_, _, _, _, _)

isLRPossible(p, parsers, L) ==
    IF L[p] < 0 THEN LRResult(L, TRUE, FALSE)
    ELSE IF L[p] > 0 THEN LRResult(L, FALSE, FALSE)
    ELSE IF p \in parsers THEN LRResult([L EXCEPT ![p] = -1], TRUE, FALSE)
    ELSE LET r == IsLRPossible(p, parsers \cup {p}, L) IN
         IF r.possible
         THEN LRResult([r.lr EXCEPT ![p] = -1], r.possible, r.canParseEmpty)
         ELSE LRResult([r.lr EXCEPT ![p] = 1], r.possible, r.canParseEmpty)

field_IsLRPossible(f, parsers, L) ==
    LET r == isLRPossible(f.Parse, parsers, L) IN
    IF r.possible THEN r
    ELSE IF f.Flags # 0 THEN LRResult(r.lr, r.possible, TRUE)
    ELSE r

sequenceParser_IsLRPossible(fields, i, parsers, L) ==
    IF i > Len(fields) THEN LRResult(L, FALSE, TRUE)
    ELSE LET r == field_IsLRPossible(fields[i], parsers, L) IN
         IF r.possible THEN r
         ELSE IF ~r.canParseEmpty THEN LRResult(r.lr, FALSE, FALSE)
         ELSE sequenceParser_IsLRPossible(fields, i + 1, parsers, r.lr)

firstOfParser_IsLRPossible(fields, i, parsers, L, can) ==
    IF i > Len(fields) THEN LRResult(L, FALSE, can)
    ELSE LET r == field_IsLRPossible(fields[i], parsers, L) IN
         IF r.possible THEN LRResult(r.lr, TRUE, can)
         ELSE firstOfParser_IsLRPossible(fields, i + 1, parsers, r.lr, can \/ r.canParseEmpty)

sliceParser_IsLRPossible(n, parsers, L) ==
    LET r == isLRPossible(n.Parser, parsers, L) IN
    IF n.Min = 0 THEN LRResult(r.lr, r.possible, TRUE) ELSE r

ptrParser_IsLRPossible(n, parsers, L) ==
    LET r == isLRPossible(n.Parser, parsers, L) IN
    IF r.possible THEN r
    ELSE IF n.Optional THEN LRResult(r.lr, r.possible, TRUE)
    ELSE r

IsLRPossible(p, parsers, L) ==
    LET n == Node[p] IN
    CASE n.kind \in {"bool", "string", "int", "uint", "float"} -> LRResult(L, FALSE, FALSE)
      [] n.kind = "regexp" -> LRResult(L, FALSE, n.quant = "star")
      [] n.kind = "literal" -> LRResult(L, FALSE, Len(n.Literal) = 0)
      [] n.kind \in {"location", "parser"} -> LRResult(L, FALSE, TRUE)
      [] n.kind = "sequence" -> sequenceParser_IsLRPossible(n.Fields, 1, parsers, L)
      [] n.kind = "firstOf" -> firstOfParser_IsLRPossible(n.Fields, 1, parsers, L, FALSE)
      [] n.kind = "slice" -> sliceParser_IsLRPossible(n, parsers, L)
      [] n.kind = "ptr" -> ptrParser_IsLRPossible(n, parsers, L)

(* compile: the parser is taken from _compiledParsers (the table above),   *)
(* then the analysis runs from the root with an empty spine.               *)
compile(r, L) == isLRPossible(r, {}, L).lr

---------------------------------------------------------------------------
(* Integer literals.  The accumulator of parseUint64 is a uint64; the      *)
(* model keeps its structure at a width of AccBits bits: arithmetic wraps  *)
(* modulo 2^AccBits, the hexadecimal sentinel is the top nibble and the    *)
(* decimal/octal sentinel the top three bits of the accumulator.           *)

AccBits == 8

RECURSIVE Pow2(_)
Pow2(n) == IF n = 0 THEN 1 ELSE 2 * Pow2(n - 1)

AccMod == Pow2(AccBits)
HexSentinel == Pow2(AccBits - 4)     \* res & 0xf000000000000000 # 0  <=>  res >= HexSentinel
DecSentinel == Pow2(AccBits - 3)     \* res & 0xe000000000000000 # 0  <=>  res >= DecSentinel
SignBit == Pow2(AccBits - 1)         \* 0x8000000000000000

DecDigits == <<"0", "1", "2", "3", "4", "5", "6", "7", "8", "9">>
LowerHex == <<"a", "b", "c", "d", "e", "f">>
UpperHex == <<"A", "B", "C", "D", "E", "F">>

IndexOf(seq, c) == CHOOSE i \in 1..Len(seq) : seq[i] = c
InSeq(seq, c) == \E i \in 1..Len(seq) : seq[i] = c
IsDec(c) == InSeq(DecDigits, c)
IsOct(c) == IsDec(c) /\ IndexOf(DecDigits, c) <= 8
DecVal(c) == IndexOf(DecDigits, c) - 1
IsHex(c) == IsDec(c) \/ InSeq(LowerHex, c) \/ InSeq(UpperHex, c)
HexVal(c) ==
    IF IsDec(c) THEN DecVal(c)
    ELSE IF InSeq(LowerHex, c) THEN IndexOf(LowerHex, c) + 9
    ELSE IndexOf(UpperHex, c) + 9

NumResult(v, l, msg, eloc) == [v |-> v, l |-> l, msg |-> msg, eloc |-> eloc]
NoErr == "-"        \* err.Message is left as it was
KeepLoc == 0 - 1    \* err.Location is left as it was

checkUintOverflow(v, size) ==
    IF size >= AccBits THEN FALSE
    ELSE (v \div Pow2(size)) # 0

RECURSIVE hexLoop(_, _, _, _), octLoop(_, _, _, _), decLoop(_, _, _, _)

\* the three accumulation loops of parseUint64; they return the result of
\* parseUint64 itself
hexLoop(s, location, res, size) ==
    IF location < Len(s) /\ res >= HexSentinel
    THEN NumResult(0, -1, "Integer overflow", location)
    ELSE IF location < Len(s) /\ IsHex(s[location + 1])
    THEN hexLoop(s, location + 1, (res * 16 + HexVal(s[location + 1])) % AccMod, size)
    ELSE IF checkUintOverflow(res, size)
    THEN NumResult(0, -1, "Integer overflow", location)
    ELSE NumResult(res, location, NoErr, 0)

octLoop(s, location, res, size) ==
    IF location < Len(s) /\ res >= DecSentinel
    THEN NumResult(0, -1, "Integer overflow", location)
    ELSE IF location < Len(s) /\ IsOct(s[location + 1])
    THEN octLoop(s, location + 1, (res * 8 + DecVal(s[location + 1])) % AccMod, size)
    ELSE IF checkUintOverflow(res, size)
    THEN NumResult(0, -1, "Integer overflow", location)
    ELSE NumResult(res, location, NoErr, 0)

decOverflow(location) == NumResult(0, location, "Integer overflow", location)

decLoop(s, location, res, size) ==
    IF location < Len(s) /\ res >= DecSentinel
    THEN NumResult(0, -1, "Integer overflow", location)
    ELSE IF location < Len(s) /\ IsDec(s[location + 1])
    THEN LET r8 == (res * 8) % AccMod
             r10 == (r8 + res * 2) % AccMod
         IN IF r10 < r8
            THEN decOverflow(location)
            ELSE decLoop(s, location + 1, (r10 + DecVal(s[location + 1])) % AccMod, size)
    ELSE IF checkUintOverflow(res, size)
    THEN NumResult(0, -1, "Integer overflow", location)
    ELSE NumResult(res, location, NoErr, 0)

parseUint64(s, location, size) ==
    IF location >= Len(s)
    THEN NumResult(0, -1, "Unexpected end of file. Waiting for integer literal.", location)
    ELSE IF s[location + 1] = "0"
    THEN IF location + 1 < Len(s) /\ s[location + 2] \in {"x", "X"}
         THEN IF location + 2 >= Len(s)
              THEN NumResult(0, -1, "Unexpected end of file in hexadecimal literal.", location + 2)
              ELSE hexLoop(s, location + 2, 0, size)
         ELSE octLoop(s, location, 0, size)
    ELSE IF IsDec(s[location + 1])
    THEN decLoop(s, location, 0, size)
    ELSE NumResult(0, -1, "Waiting for integer literal", location)

signOverflow(location) == NumResult(0, location, "Integer overflow", location)

parseInt64(s, location, size) ==
    IF location >= Len(s)
    THEN NumResult(0, -1, "Unexpected end of file. Waiting for integer.", KeepLoc)
    ELSE LET neg == s[location + 1] = "-"
             loc1 == IF neg THEN location + 1 ELSE location
             u == parseUint64(s, loc1, size)
         IN IF u.l < 0 THEN [u EXCEPT !.v = 0]
            ELSE IF u.v >= SignBit THEN signOverflow(loc1)
            ELSE NumResult(IF neg THEN -u.v ELSE u.v, u.l, u.msg, u.eloc)

\* reflect.Value.SetInt / SetUint on a slot of `size' bits keep the low bits
SetUint(x, size) == x % Pow2(size)
SetInt(x, size) ==
    LET m == x % Pow2(size) IN
    IF m >= Pow2(size - 1) THEN m - Pow2(size) ELSE m

---------------------------------------------------------------------------
(* The parse context.  ctx carries what the Go code reaches through the    *)
(* *parseContext and the shared *Error: str, params, packrat,              *)
(* recursiveLocations, err; lr is the lr field of the parsers; panic is    *)
(* the panic that is unwinding the call ("" if none); depth the nesting of *)
(* ParseValue calls; h the ghost record of what happened.                  *)

NoPanic == ""

NoEntries == [k \in {} |-> 0]    \* make(map[packratKey]*packratValue)

EmptyHist == [fails |-> {}, rets |-> {}, fields |-> {}, elems |-> {}, seeds |-> {},
              stops |-> {}, fos |-> {}, ptrs |-> {}, grown |-> {}, hits |-> {}, sets |-> {},
              seq |-> {}, ends |-> {}, n |-> 0, iters |-> 0,
              finals |-> {}, served |-> {}, rewritten |-> {}, redone |-> {},
              looks |-> {}, calls |-> 0, aheads |-> {}, exhausted |-> {}, starts |-> {},
              plains |-> {}, delims |-> {}, slends |-> {}, prior |-> <<"none">>]

NewContext(s, par, usr, L) ==
    [str |-> s, params |-> par, user |-> usr, lr |-> L,
     packrat |-> NoEntries, recursiveLocations |-> {},
     err |-> [Location |-> 0, Message |-> <<"", 0>>],
     panic |-> NoPanic, depth |-> 0, h |-> EmptyHist]

\* (panicked: the call has not returned, a panic is unwinding through it)
Res(c, v, l) == [ctx |-> c, v |-> v, l |-> l, panicked |-> c.panic # NoPanic]

Panic(c, v, msg) == Res([c EXCEPT !.panic = msg], v, -1)

\* err.Message = msg; err.Location = loc
SetErr(c, loc, msg) ==
    [c EXCEPT !.err = [Location |-> loc, Message |-> msg],
              !.h.fails = @ \cup {loc}]

Log(c, what, e) == [c EXCEPT !.h[what] = @ \cup {e}]

skipWS(c, loc) ==
    IF c.params.SkipWhite
    THEN LET l == SkipSpaces(c.str, loc) IN IF l >= loc THEN l ELSE loc
    ELSE loc

Key(p, location) == <<p, location>>

HasEntry(c, key) == key \in DOMAIN c.packrat

\* is the entry for key final (parsed)?
IsFinal(c, key) == key \in DOMAIN c.packrat /\ c.packrat[key].parsed

\* (h.rewritten: the keys whose entry was written or deleted when it was final)
PutEntry(c, key, e) ==
    LET old == c.packrat IN
    [c EXCEPT !.packrat = [k \in (DOMAIN old) \cup {key} |-> IF k = key THEN e ELSE old[k]],
              !.h.rewritten = IF IsFinal(c, key) THEN @ \cup {key} ELSE @]

\* a delete that leaves the entry in the table
DelEntry_kept(c, key) == c

\* delete(ctx.packrat, key)
DelEntry(c, key) ==
    LET old == c.packrat IN
    [c EXCEPT !.packrat = [k \in (DOMAIN old) \ {key} |-> old[k]],
              !.h.rewritten = IF IsFinal(c, key) THEN @ \cup {key} ELSE @]

\* (h.finals: the entries as they were when they became final, and the
\* number of ParseValue calls made until then)
Finalized(c, key) == Log(c, "finals", <<key, c.packrat[key], c.h.calls>>)

\* (h.served: what a drive that found a final entry has returned)
Served(key, r) ==
    Res(Log(r.ctx, "served", <<key, r.l, IF r.l >= 0 THEN r.v ELSE r.ctx.err>>), r.v, r.l)

\* (h.redone: the keys whose parser was invoked when their entry was final;
\* h.starts: the number of ParseValue calls made before each invocation)
Invoked(c, key) ==
    Log(IF IsFinal(c, key) THEN Log(c, "redone", key) ELSE c, "starts", <<key, c.h.calls>>)

Invalid == <<"invalid">>    \* a reflect.Value that was never set

packratValue(parsed, level, newloc, value, msg, errloc) ==
    [parsed |-> parsed, recursionLevel |-> level, new_loc |-> newloc,
     value |-> value, msg |-> msg, err_loc |-> errloc]

\* the fields of a struct value
FieldsOf(v) == IF v[1] = "firstof" THEN v[3] ELSE v[2]
WithField(v, i, x) ==
    IF v[1] = "firstof" THEN <<v[1], v[2], [v[3] EXCEPT ![i] = x]>>
    ELSE <<v[1], [v[2] EXCEPT ![i] = x]>>
WithTag(v, name) == <<v[1], name, v[3]>>

---------------------------------------------------------------------------
(* Terminal parsers *)

\* regexp.Find on str[location:] for the anchored patterns used here:
\* one character of a class, one or more, or zero or more.  -1: no match.
RECURSIVE Run(_, _, _)
Run(s, loc, cls) == IF loc < Len(s) /\ s[loc + 1] \in cls THEN 1 + Run(s, loc + 1, cls) ELSE 0

RegexpFind(n, s, location) ==
    LET run == Run(s, location, n.cls) IN
    CASE n.quant = "one" -> IF run >= 1 THEN 1 ELSE -1
      [] n.quant = "plus" -> IF run >= 1 THEN run ELSE -1
      [] n.quant = "star" -> run
      [] n.quant = "word" -> IF run >= 1 /\ strAt(s, location + 1, n.rest)
                             THEN 1 + Len(n.rest) ELSE -1

regexpParser_ParseValue(p, v, location, c) ==
    IF location < 0 \/ location > Len(c.str)
    THEN Panic(c, v, "slice bounds out of range")
    ELSE LET m == RegexpFind(Node[p], c.str, location) IN
         IF m < 0
         THEN Res(SetErr(c, location, <<"Waiting for regexp", p>>), v, -1)
         ELSE Res(c, <<"str", SubStr(c.str, location, location + m)>>, location + m)

literalParser_ParseValue(p, v, location, c) ==
    LET lit == Node[p].Literal IN
    IF location < 0 /\ location + Len(lit) <= Len(c.str) /\ Len(lit) > 0
    THEN Panic(c, v, "index out of range")
    ELSE IF strAt(c.str, location, lit)
    THEN Res(c, <<"str", lit>>, location + Len(lit))
    ELSE Res(SetErr(c, location, <<"Waiting for literal", p>>), v, -1)

\* err after a call of parseUint64 / parseInt64
NumErr(c, r) ==
    IF r.msg = NoErr THEN c
    ELSE IF r.eloc = KeepLoc
    THEN [c EXCEPT !.err.Message = <<r.msg, 0>>]
    ELSE IF r.l < 0 THEN SetErr(c, r.eloc, <<r.msg, 0>>)
    ELSE [c EXCEPT !.err = [Location |-> r.eloc, Message |-> <<r.msg, 0>>]]

\* valueOf.SetUint(r) / valueOf.SetInt(r) after the number parser has returned r
uintSet(v, c, r) ==
    IF r.l < 0 THEN Res(NumErr(c, r), v, r.l)
    ELSE Res(NumErr(c, r), <<"int", SetUint(r.v, AccBits)>>, r.l)

intSet(v, c, r) ==
    IF r.l < 0 THEN Res(NumErr(c, r), v, r.l)
    ELSE Res(NumErr(c, r), <<"int", SetInt(r.v, AccBits)>>, r.l)

uintParser_ParseValue(p, v, location, c) == uintSet(v, c, parseUint64(c.str, location, AccBits))

intParser_ParseValue(p, v, location, c) == intSet(v, c, parseInt64(c.str, location, AccBits))

locationParser_ParseValue(p, v, location, c) == Res(c, <<"int", location>>, location)

(* The user's Parser capability: what v.ParseValue(ctx.str, location)      *)
(* returns.  "eof" is myEOF of the tests; the others return the offset     *)
(* after one byte, the offset they were given, or an offset past the end.  *)
UserBehaviours == {"eof", "adv", "stay", "beyond"}

UserParseValue(usr, s, loc) ==
    CASE usr = "eof" -> IF loc < Len(s) THEN [l |-> -1, e |-> TRUE] ELSE [l |-> 0, e |-> FALSE]
      [] usr = "adv" -> IF loc < Len(s) THEN [l |-> loc + 1, e |-> FALSE] ELSE [l |-> -1, e |-> TRUE]
      [] usr = "stay" -> [l |-> loc, e |-> FALSE]
      [] usr = "beyond" -> [l |-> Len(s) + 1, e |-> FALSE]

parserParser_ParseValue(p, v, location, c) ==
    LET u == UserParseValue(c.user, c.str, location) IN
    IF u.e THEN Res(SetErr(c, location, <<"user error", p>>), v, -1)
    ELSE IF u.l > Len(c.str) THEN Panic(c, v, "Invalid parser")
    ELSE Res(c, v, u.l)

---------------------------------------------------------------------------
(* The engine and the combinators.  Every operator takes the value of the  *)
(* slot it parses into (the Go code writes through a reflect.Value) and    *)
(* returns Res(ctx, v, l): the context and the slot after the call and the *)
(* returned location.  A panic unwinds: it is returned as soon as seen.    *)

RECURSIVE parse(_, _, _, _), ParseValue(_, _, _, _), growSeed(_, _, _, _, _)
RECURSIVE field_ParseValue(_, _, _, _, _), sequenceParser_ParseValue(_, _, _, _, _, _)
RECURSIVE firstOfParser_ParseValue(_, _, _, _, _, _), sliceParser_ParseValue(_, _, _, _)
RECURSIVE ptrParser_ParseValue(_, _, _, _)

\* a cache hit that returns the stored offset and leaves the slot as it is
Restore_offsetOnly(c, cache, v) ==
    IF cache.new_loc >= 0
    THEN Res(c, v, cache.new_loc)
    ELSE Res([c EXCEPT !.err = [Location |-> cache.err_loc, Message |-> cache.msg]], v, cache.new_loc)

\* value_of.Set(cache.value.Elem()), or err = the cached error
Restore(c, cache, v) ==
    IF cache.new_loc >= 0
    THEN Res(c, cache.value, cache.new_loc)
    ELSE Res([c EXCEPT !.err = [Location |-> cache.err_loc, Message |-> cache.msg]], v, cache.new_loc)

\* the entry becomes the result of the parse that has just returned
Memoize(c, key, v, l) ==
    PutEntry(c, key, [c.packrat[key] EXCEPT !.parsed = TRUE,
                                            !.msg = c.err.Message,
                                            !.err_loc = c.err.Location,
                                            !.value = IF l >= 0 THEN v ELSE @,
                                            !.new_loc = l])

\* the parse at recursion level 0 has returned l
\* (h.plains: the key, and whether its offset was a recursive location then)
finishPlain(c, key, v, l) ==
    IF key[2] \notin c.recursiveLocations
    THEN IF ~c.params.PackratEnabled
         THEN Res(DelEntry(Log(c, "plains", <<key, FALSE>>), key), v, l)
         ELSE Res(Finalized(Memoize(Log(c, "plains", <<key, FALSE>>), key, v, l), key), v, l)
    ELSE Res(DelEntry(Log(c, "plains", <<key, TRUE>>), key), v, l)

\* the first result of a left-recursive rule becomes the seed
installSeed(c, key, v, l) ==
    PutEntry([c EXCEPT !.recursiveLocations = @ \cup {key[2]}], key,
             [c.packrat[key] EXCEPT !.new_loc = l,
                                    !.msg = c.err.Message,
                                    !.err_loc = c.err.Location,
                                    !.value = IF l >= 0 THEN v ELSE @,
                                    !.recursionLevel = 2])

\* a replacement that moves the seed's offset on and keeps the seed's value
replaceSeed_offsetOnly(c, key, v, l) ==
    PutEntry([Log(c, "seeds", <<key, c.packrat[key].new_loc, l>>) EXCEPT !.h.iters = @ + 1],
             key, [c.packrat[key] EXCEPT !.new_loc = l])

\* a longer result replaces the seed
replaceSeed(c, key, v, l) ==
    PutEntry([Log(c, "seeds", <<key, c.packrat[key].new_loc, l>>) EXCEPT !.h.iters = @ + 1],
             key, [c.packrat[key] EXCEPT !.new_loc = l, !.value = v])

\* a loop that goes on while the reparse ends where the seed ends
NoAdvance_strict(cache, l) == cache.new_loc >= 0 /\ l < cache.new_loc

\* `cache.new_loc >= 0 && l <= cache.new_loc': the reparse went no further than the seed
NoAdvance(cache, l) == cache.new_loc >= 0 /\ l <= cache.new_loc

\* the reparse has failed: the seed is the result
seedFailed(c, key, cache, v, l) ==
    Res(Finalized(PutEntry(Log(c, "stops", <<key, cache.new_loc, l>>), key,
                           [cache EXCEPT !.parsed = TRUE]), key),
        IF cache.new_loc >= 0 THEN cache.value ELSE v, cache.new_loc)

\* the reparse went no further: the seed is the result
seedFinal(c, key, cache, l) ==
    Res(Finalized(PutEntry(Log(c, "stops", <<key, cache.new_loc, l>>), key,
                           [cache EXCEPT !.parsed = TRUE, !.recursionLevel = 0]), key),
        cache.value, cache.new_loc)

\* one round of the `for' loop of parse after p.ParseValue has returned r
reparsed(p, key, location, r) ==
    IF r.panicked THEN r
    ELSE IF r.l < 0 THEN seedFailed(r.ctx, key, r.ctx.packrat[key], r.v, r.l)
    ELSE IF NoAdvance(r.ctx.packrat[key], r.l) THEN seedFinal(r.ctx, key, r.ctx.packrat[key], r.l)
    ELSE growSeed(p, key, r.v, location, replaceSeed(r.ctx, key, r.v, r.l))

\* the `for' loop of parse: reparse until an error or no progress
growSeed(p, key, v, location, c0) ==
    IF c0.h.iters >= MaxGrow THEN Panic(c0, v, "seed loop does not end")
    ELSE reparsed(p, key, location,
                  ParseValue(p, v, location,
                             PutEntry(Invoked(c0, key), key,
                                      [c0.packrat[key] EXCEPT !.recursionLevel = 2])))

\* a detection that leaves the set of recursive locations as it is
MarkRecursive_unmarked(c, location) == c

\* ctx.recursiveLocations[location] = true
MarkRecursive(c, location) == [c EXCEPT !.recursiveLocations = @ \cup {location}]

\* (h.looks: what a drive that found an entry that is not final has seen,
\* left behind and returned; h.calls counts the calls of ParseValue)
Looked(c, key, r) ==
    Res(Log(r.ctx, "looks",
            [key |-> key, before |-> c.packrat[key], after |-> r.ctx.packrat[key],
             marked |-> r.ctx.recursiveLocations, l |-> r.l, v |-> r.v, err |-> r.ctx.err,
             calls |-> r.ctx.h.calls - c.h.calls, at |-> c.h.calls]),
        r.v, r.l)

\* parse when the table has an entry for key
cached(c, key, cache, v) ==
    IF cache.parsed THEN Served(key, Restore(Log(c, "hits", <<key, cache.new_loc>>), cache, v))
    ELSE IF cache.recursionLevel = 0
    THEN Looked(c, key,
                Res(PutEntry(MarkRecursive(c, key[2]), key,
                             [cache EXCEPT !.recursionLevel = 1,
                                           !.msg = <<"Waiting for", key[1]>>,
                                           !.new_loc = -1,
                                           !.err_loc = key[2]]),
                    v, -1))
    ELSE Looked(c, key, Restore(c, cache, v))

\* the seed-growing loop has returned g
grown(key, g) ==
    IF g.panicked THEN g
    ELSE Res(Log(g.ctx, "grown", <<key, g.l>>), g.v, g.l)

\* parse after the first p.ParseValue has returned r
parsed(p, key, r) ==
    IF r.panicked THEN r
    ELSE IF r.ctx.packrat[key].recursionLevel = 0
    THEN finishPlain(r.ctx, key, r.v, r.l)
    ELSE grown(key, growSeed(p, key, r.v, key[2], installSeed(r.ctx, key, r.v, r.l)))

\* parse after ctx.skipWS
parseAt(v, p, location, c) ==
    IF ~c.params.PackratEnabled /\ c.lr[p] > 0
    THEN ParseValue(p, v, location, Invoked(c, Key(p, location)))
    ELSE IF HasEntry(c, Key(p, location))
    THEN cached(c, Key(p, location), c.packrat[Key(p, location)], v)
    ELSE parsed(p, Key(p, location),
                ParseValue(p, v, location,
                           PutEntry(Invoked(c, Key(p, location)), Key(p, location),
                                    packratValue(FALSE, 0, location, Invalid, <<"", 0>>, 0))))

parse(v, p, location0, c) == parseAt(v, p, skipWS(c, location0), c)

\* a lookahead that moves on to where its parser has ended
KeepLocation_consuming(location, l) == IF l >= 0 THEN l ELSE location

\* `Don't change the location': what a lookahead field returns on success
KeepLocation(location, l) == location

\* an ordinary field that ends where its parser has ended
FieldEnd_unskipped(c, l) == l

\* `return ctx.skipWS(l)': where an ordinary field ends
FieldEnd(c, l) == skipWS(c, l)

\* a NOT_ANY field that takes the failure of its parser for the unexpected input
Unexpected_onFailure(l) == l < 0

\* `if l >= 0' under fieldNotAny: the input the field must not see is there
Unexpected(l) == l >= 0

\* (h.aheads: the flag of a lookahead field, where it has started, what its
\* parser has returned and what the field has returned)
Ahead(c, f, location, l, out) == Log(c, "aheads", <<f.Flags, location, l, out>>)

\* field.ParseValue after ctx.parse has returned r; w is the struct with the
\* field as the child has left it (it writes through the reflect.Value)
fieldParsed(f, location, r, w) ==
    IF r.panicked THEN Res(r.ctx, w, -1)
    ELSE IF f.Flags = fieldNotAny
    THEN IF Unexpected(r.l)
         THEN Res(SetErr(Ahead(r.ctx, f, location, r.l, -1), location, <<"Unexpected input", f.Parse>>),
                  w, -1)
         ELSE Res(Log(Ahead(r.ctx, f, location, r.l, KeepLocation(location, r.l)),
                      "fields", <<location, KeepLocation(location, r.l)>>), w,
                  KeepLocation(location, r.l))
    ELSE IF f.Flags = fieldFollowedBy
    THEN IF r.l < 0 THEN Res(Ahead(r.ctx, f, location, r.l, r.l), w, r.l)
         ELSE Res(Log(Ahead(r.ctx, f, location, r.l, KeepLocation(location, r.l)),
                      "fields", <<location, KeepLocation(location, r.l)>>), w,
                  KeepLocation(location, r.l))
    ELSE IF r.l < 0 THEN Res(r.ctx, w, r.l)
    ELSE IF f.Set # "" /\ r.ctx.params.SetFails
    THEN Res(SetErr(Log(r.ctx, "sets", <<location, r.l, 0 - r.l>>), r.l, <<"Set failed", f.Parse>>),
             w, 0 - r.l)
    ELSE Res(Log(r.ctx, "fields", <<location, FieldEnd(r.ctx, r.l)>>), w, FieldEnd(r.ctx, r.l))

fieldWritten(f, i, valueOf, location, r) ==
    fieldParsed(f, location, r, IF f.Index < 0 THEN valueOf ELSE WithField(valueOf, i, r.v))

\* field.ParseValue for the i-th field of the struct value valueOf
field_ParseValue(f, i, valueOf, location, c) ==
    fieldWritten(f, i, valueOf, location,
                 parse(IF f.Index < 0 THEN Zero(f.Parse) ELSE FieldsOf(valueOf)[i],
                       f.Parse, location, c))

\* sequenceParser.ParseValue after field i has returned r
\* (id numbers the calls of sequenceParser.ParseValue within one Parse)
sequenceNext(p, i, id, location, r) ==
    IF r.panicked THEN r
    ELSE IF r.l < 0
    THEN Res(Log(Log(r.ctx, "seq", <<id, p, i, location, r.l>>), "ends", <<id, p, r.l>>), r.v, r.l)
    ELSE sequenceParser_ParseValue(p, i + 1, id, r.v, r.l,
                                   Log(r.ctx, "seq", <<id, p, i, location, r.l>>))

\* the loop of sequenceParser.ParseValue, from field i on
sequenceParser_ParseValue(p, i, id, valueOf, location, c) ==
    IF i > Len(Node[p].Fields) THEN Res(Log(c, "ends", <<id, p, location>>), valueOf, location)
    ELSE sequenceNext(p, i, id, location,
                      field_ParseValue(Node[p].Fields[i], i, valueOf, location, c))

\* a FirstOf that leaves FirstOf.Field as it was
ChosenName_unset(f) == ""

\* the name stored in FirstOf.Field when the field f has matched
ChosenName(f) == f.Name

\* `if err.Location > maxError.Location { maxError... = err... }'
\* (seen: the errors the branches have left, in the order of the branches;
\* h.exhausted: the node, the offset, these errors and the error surfaced)
KeepMax(maxError, err) ==
    [Location |-> IF err.Location > maxError.Location THEN err.Location ELSE maxError.Location,
     Message |-> IF err.Location > maxError.Location THEN err.Message ELSE maxError.Message,
     seen |-> Append(maxError.seen, err)]

\* firstOfParser.ParseValue after field i has returned r
firstOfNext(p, i, location, maxError, r) ==
    IF r.panicked THEN r
    ELSE IF r.l >= 0
    THEN Res(Log(r.ctx, "fos", <<p, location, i, r.l>>),
             WithTag(r.v, ChosenName(Node[p].Fields[i])), r.l)
    ELSE firstOfParser_ParseValue(p, i + 1, r.v, location, r.ctx, KeepMax(maxError, r.ctx.err))

\* the loop of firstOfParser.ParseValue, from field i on
firstOfParser_ParseValue(p, i, valueOf, location, c, maxError) ==
    IF i > Len(Node[p].Fields)
    THEN Res(SetErr(Log(c, "exhausted", <<p, location, maxError.seen,
                                          [Location |-> maxError.Location,
                                           Message |-> maxError.Message]>>),
                    maxError.Location, maxError.Message), valueOf, -1)
    ELSE firstOfNext(p, i, location, maxError,
                     field_ParseValue(Node[p].Fields[i], i, valueOf, location, c))

\* has the element that returned nl made progress from location?
ZeroLength(nl, location) == nl <= location

\* after the delimiter test: nl is ctx.skipWS(location) behind the member
\* (h.delims: the slice, the number of its members, the offset of a delimiter
\* that was matched and the offset at which the next member is tried)
sliceDelimiter(p, n, w, nl, c) ==
    IF strAt(c.str, nl, n.Delimiter)
    THEN sliceParser_ParseValue(p, w, skipWS(c, nl + Len(n.Delimiter)),
                                Log(c, "delims", <<p, Len(w[2]), nl,
                                                   skipWS(c, nl + Len(n.Delimiter))>>))
    ELSE Res(c, w, nl)

\* the member that returned at offset l has been appended: w is the slice
sliceAppended(p, n, w, l, c) ==
    IF Len(n.Delimiter) > 0
    THEN sliceDelimiter(p, n, w, skipWS(c, l), c)
    ELSE sliceParser_ParseValue(p, w, l, c)

\* sliceParser.ParseValue after ctx.parse of a member has returned r;
\* start is the offset at which the member's own parse began
\* (h.slends: the slice, the number of its members, the offset at which the
\* member that has failed was tried, and the offset returned)
sliceNext(p, n, valueOf, location, start, r) ==
    IF r.panicked THEN Res(r.ctx, valueOf, -1)
    ELSE IF r.l < 0
    THEN IF Len(valueOf[2]) >= n.Min
         THEN Res(Log(r.ctx, "slends", <<p, Len(valueOf[2]), location, location>>),
                  valueOf, location)
         ELSE Res(r.ctx, valueOf, r.l)
    ELSE IF ZeroLength(r.l, location)
    THEN Panic(r.ctx, valueOf, "Invalid grammar: 0-length member of ZeroOrMore")
    ELSE sliceAppended(p, n, <<"slice", Append(valueOf[2], r.v)>>, r.l,
                       Log(r.ctx, "elems", <<p, start, r.l>>))

\* the loop of sliceParser.ParseValue; valueOf holds the members parsed so far
sliceParser_ParseValue(p, valueOf, location, c) ==
    sliceNext(p, Node[p], valueOf, location, skipWS(c, location),
              parse(Zero(Node[p].Parser), Node[p].Parser, location, c))

\* ptrParser.ParseValue after ctx.parse has returned r
ptrParsed(p, n, valueOf, location, r) ==
    IF r.panicked THEN Res(r.ctx, valueOf, -1)
    ELSE IF r.l < 0
    THEN IF n.Optional
         THEN Res(Log(r.ctx, "ptrs", <<p, location, valueOf>>), valueOf, location)
         ELSE Res(r.ctx, valueOf, r.l)
    ELSE Res(r.ctx, <<"ptr", r.v>>, r.l)

ptrParser_ParseValue(p, valueOf, location, c) ==
    ptrParsed(p, Node[p], valueOf, location,
              parse(Zero(Node[p].Parser), Node[p].Parser, location, c))

\* the ParseValue method of the parser p, by its kind
Method(p, kind, v, location, c) ==
    CASE kind = "regexp" -> regexpParser_ParseValue(p, v, location, c)
      [] kind = "literal" -> literalParser_ParseValue(p, v, location, c)
      [] kind = "uint" -> uintParser_ParseValue(p, v, location, c)
      [] kind = "int" -> intParser_ParseValue(p, v, location, c)
      [] kind = "location" -> locationParser_ParseValue(p, v, location, c)
      [] kind = "parser" -> parserParser_ParseValue(p, v, location, c)
      [] kind = "sequence" ->
             sequenceParser_ParseValue(p, 1, c.h.n, v, location, [c EXCEPT !.h.n = @ + 1])
      [] kind = "firstOf" ->
             firstOfParser_ParseValue(p, 1, v, location, c,
                 [Location |-> location - 1, Message |-> <<"No choices in first of", p>>,
                  seen |-> <<>>])
      [] kind = "slice" -> sliceParser_ParseValue(p, <<"slice", <<>>>>, location, c)
      [] kind = "ptr" -> ptrParser_ParseValue(p, v, location, c)

\* the method has returned r
Returned(p, location, r) ==
    IF r.panicked THEN r
    ELSE Res([(IF r.l >= 0 THEN Log(r.ctx, "rets", <<p, location, r.l>>) ELSE r.ctx)
                 EXCEPT !.depth = @ - 1], r.v, r.l)

\* p.ParseValue(ctx, value_of, location, err)
ParseValue(p, v, location, c0) ==
    IF c0.depth >= MaxDepth THEN Panic(c0, v, "stack overflow")
    ELSE Returned(p, location, Method(p, Node[p].kind, v, location,
                                      [c0 EXCEPT !.depth = @ + 1, !.h.calls = @ + 1]))

---------------------------------------------------------------------------
(* Write / Append: the WriteValue methods.  A call returns the bytes it    *)
(* has written and the error it returns ("" for nil).                      *)

Wrote(text) == [text |-> text, err |-> ""]
WriteFailed(msg) == [text |-> <<>>, err |-> msg]
NoEmit == [text |-> <<>>, err |-> "not called"]

\* strconv.AppendUint(nil, n, 10)
RECURSIVE AppendUint(_)
AppendUint(n) ==
    IF n < 10 THEN <<DecDigits[n + 1]>>
    ELSE Append(AppendUint(n \div 10), DecDigits[(n % 10) + 1])

\* strconv.AppendInt(nil, n, 10)
AppendInt(n) == IF n < 0 THEN <<"-">> \o AppendUint(0 - n) ELSE AppendUint(n)

regexpParser_WriteValue(p, valueOf) ==
    IF RegexpFind(Node[p], valueOf[2], 0) >= 0 THEN Wrote(valueOf[2])
    ELSE WriteFailed("String does not match regular expression")

\* field.WriteValue of an anonymous field: `v' is the struct itself, so
\* v.IsNil() of the pointer case is called on a struct value
anonymous_WriteValue(p) ==
    CASE Node[p].kind = "ptr" -> WriteFailed("panic: reflect: call of reflect.Value.IsNil on struct Value")
      [] Node[p].kind = "literal" -> Wrote(Node[p].Literal)
      [] OTHER -> WriteFailed("Could not out anonymous field if it is not literal")

RECURSIVE WriteValue(_, _), sequenceParser_WriteValue(_, _, _, _), sliceParser_WriteValue(_, _, _, _)

field_WriteValue(f, i, valueOf) ==
    IF f.Flags # 0 THEN Wrote(<<>>)
    ELSE IF f.Index < 0 THEN anonymous_WriteValue(f.Parse)
    ELSE WriteValue(f.Parse, FieldsOf(valueOf)[i])

\* sequenceParser.WriteValue after field i has written w
sequenceWritten(p, i, valueOf, out, w) ==
    IF w.err # "" THEN w
    ELSE sequenceParser_WriteValue(p, i + 1, valueOf, out \o w.text)

\* the loop of sequenceParser.WriteValue, from field i on
sequenceParser_WriteValue(p, i, valueOf, out) ==
    IF i > Len(Node[p].Fields) THEN Wrote(out)
    ELSE sequenceWritten(p, i, valueOf, out, field_WriteValue(Node[p].Fields[i], i, valueOf))

\* the fields of the FirstOf whose name is nm
Named(fields, nm) == {i \in 1..Len(fields) : fields[i].Name = nm}

firstOfParser_WriteValue(p, valueOf) ==
    IF valueOf[2] = "" THEN WriteFailed("Field is not selected in FirstOf")
    ELSE IF Named(Node[p].Fields, valueOf[2]) = {} THEN WriteFailed("Field is not present")
    ELSE LET i == CHOOSE j \in Named(Node[p].Fields, valueOf[2]) :
                      \A k \in Named(Node[p].Fields, valueOf[2]) : j <= k
         IN field_WriteValue(Node[p].Fields[i], i, valueOf)

\* sliceParser.WriteValue after member i has written w
sliceWritten(p, i, valueOf, out, w) ==
    IF w.err # "" THEN w
    ELSE sliceParser_WriteValue(p, i + 1, valueOf, out \o w.text)

\* the loop of sliceParser.WriteValue, from the member with index i (0-based) on
sliceParser_WriteValue(p, i, valueOf, out) ==
    IF i >= Len(valueOf[2]) THEN Wrote(out)
    ELSE sliceWritten(p, i, valueOf,
                      IF i > 0 THEN out \o Node[p].Delimiter ELSE out,
                      WriteValue(Node[p].Parser, valueOf[2][i + 1]))

ptrParser_WriteValue(p, valueOf) ==
    IF valueOf = <<"nil">>
    THEN IF Node[p].Optional THEN Wrote(<<>>) ELSE WriteFailed("Not optional value is nil")
    ELSE WriteValue(Node[p].Parser, valueOf[2])

\* p.WriteValue(out, valueOf)
WriteValue(p, valueOf) ==
    LET kind == Node[p].kind IN
    CASE kind = "regexp" -> regexpParser_WriteValue(p, valueOf)
      [] kind = "literal" -> Wrote(Node[p].Literal)
      [] kind = "uint" -> Wrote(AppendUint(valueOf[2]))
      [] kind = "int" -> Wrote(AppendInt(valueOf[2]))
      [] kind \in {"location", "parser"} -> Wrote(<<>>)
      [] kind = "sequence" -> sequenceParser_WriteValue(p, 1, valueOf, <<>>)
      [] kind = "firstOf" -> firstOfParser_WriteValue(p, valueOf)
      [] kind = "slice" ->
             IF Len(valueOf[2]) < Node[p].Min THEN WriteFailed("Not enough members in slice")
             ELSE sliceParser_WriteValue(p, 0, valueOf, <<>>)
      [] kind = "ptr" -> ptrParser_WriteValue(p, valueOf)

---------------------------------------------------------------------------
(* Parse(result, str, params) *)

\* SetFails: the method named by a `set' tag returns an error
Params == [PackratEnabled : BOOLEAN, SkipWhite : BOOLEAN, SetFails : BOOLEAN]

\* the types with a `set' tag
HasSet(r) == \E p \in Nodes : Node[p].kind = "sequence" /\ p = r
                 /\ \E i \in 1..Len(Node[p].Fields) : Node[p].Fields[i].Set # ""

ParamsOf(r) == {q \in Params : q.SetFails => HasSet(r)}

DefaultParams == [PackratEnabled |-> FALSE, SkipWhite |-> TRUE, SetFails |-> FALSE]

\* the parse of the root, as Parse runs it after compile
Run1(r, s, par, usr, v0, L) == parse(v0, r, 0, NewContext(s, par, usr, L))

(* The variable `result' points to is either fresh (the zero value of its  *)
(* type) or was filled by an earlier Parse of PriorInput with the default  *)
(* options.                                                                *)
PriorInput(r) ==
    CASE r \in LRRoots -> <<"1", "-", "1">>
      [] r \in {W, G, abcS} -> <<"a", "b", "c">>
      [] r = V -> <<"a", "b", "c">>
      [] r \in {LL, DL, DU} -> <<"1", " ", "1">>
      [] OTHER -> <<"a">>

PriorResult(r) == Run1(r, PriorInput(r), DefaultParams, "eof", Zero(r), compile(r, [n \in Nodes |-> 0])).v

Users(r) == IF r = UR THEN UserBehaviours ELSE {"eof"}

NoCall == [l |-> 0, err |-> [Location |-> 0, Message |-> <<"", 0>>], panic |-> NoPanic]
NoCtx == [packrat |-> NoEntries, recursiveLocations |-> {}]
NoNum == [phase |-> "off"]
NoFn == [phase |-> "off"]

Init ==
    /\ lr = [n \in Nodes |-> 0]
    /\ phase = "idle"
    /\ root = 0
    /\ str = <<>>
    /\ params = DefaultParams
    /\ user = "eof"
    /\ result = <<"none">>
    /\ ret = NoCall
    /\ ctx = NoCtx
    /\ hist = EmptyHist
    /\ compiled = <<>>
    /\ num = NoNum
    /\ emitted = NoEmit
    /\ fn = NoFn

\* Parse has compiled the type (lr map L) and C.parse has returned x
Finished(r, s, par, usr, v0, L, x) ==
    /\ lr' = L
    /\ result' = x.v
    /\ ret' = [l |-> x.l, err |-> x.ctx.err, panic |-> x.ctx.panic]
    /\ ctx' = [packrat |-> x.ctx.packrat, recursiveLocations |-> x.ctx.recursiveLocations]
    /\ hist' = [x.ctx.h EXCEPT !.prior = v0]
    /\ phase' = "done"
    /\ root' = r
    /\ str' = s
    /\ params' = par
    /\ user' = usr
    /\ compiled' = Append(compiled, r)
    /\ UNCHANGED <<num, emitted, fn>>

\* (the value the slot holds exists before the call: v0 = v0 has it evaluated
\* before the parse that reads it)
Compiled(r, s, par, usr, v0, L) ==
    /\ v0 = v0
    /\ Finished(r, s, par, usr, v0, L, Run1(r, s, par, usr, v0, L))

Parse(r, s, par, usr, reuse) ==
    /\ phase = "idle"
    /\ Compiled(r, s, par, usr, IF reuse THEN PriorResult(r) ELSE Zero(r), compile(r, lr))

\* Append(nil, result) with the value a successful Parse has filled
Write ==
    /\ phase = "done" /\ ret.l >= 0 /\ ret.panic = NoPanic
    /\ emitted = NoEmit
    /\ lr' = compile(root, lr)
    /\ compiled' = Append(compiled, root)
    /\ emitted' = WriteValue(root, result)
    /\ UNCHANGED <<phase, root, str, params, user, result, ret, ctx, hist, num, fn>>

Next ==
    \/ \E r \in Roots : \E s \in Inputs(r) : \E par \in ParamsOf(r) : \E usr \in Users(r) :
           \E reuse \in BOOLEAN : Parse(r, s, par, usr, reuse)
    \/ Write

Spec == Init /\ [][Next]_vars

---------------------------------------------------------------------------
(* Parse of the lookahead grammar of the tests *)

NextLook ==
    \/ \E s \in Inputs(abcS) : \E par \in ParamsOf(abcS) : \E reuse \in BOOLEAN :
           Parse(abcS, s, par, "eof", reuse)
    \/ Write

SpecLook == Init /\ [][NextLook]_vars

---------------------------------------------------------------------------
(* Parse of the left-recursive types: those of the tests, and two rules    *)
(* that are left-recursive through each other:                             *)
(*   A <- B 'x' / 'a'      B <- B 'y' / A                                  *)
(* type A struct { FirstOf; P struct { B *B; _ string `literal:"x"` };     *)
(*                 Q string `literal:"a"` }                                *)
(* type B struct { FirstOf; P struct { B *B; _ string `literal:"y"` };     *)
(*                 Q A }                                                   *)
(* (a Go struct type can hold itself only through a pointer; rule B is     *)
(* entered through *B)                                                     *)

LRTypes == LRRoots \cup {MA}

NextMutual ==
    \/ \E r \in LRTypes : \E s \in Inputs(r) : \E par \in ParamsOf(r) : \E reuse \in BOOLEAN :
           Parse(r, s, par, "eof", reuse)
    \/ Write

SpecMutual == Init /\ [][NextMutual]_vars

---------------------------------------------------------------------------
(* compile alone, as Write calls it, any number of times in any order *)

Compile(r) ==
    /\ Len(compiled) < MaxCompiles
    /\ lr' = compile(r, lr)
    /\ compiled' = Append(compiled, r)
    /\ UNCHANGED <<phase, root, str, params, user, result, ret, ctx, hist, num, emitted, fn>>

NextCompile == \E r \in Roots : Compile(r)

SpecCompile == Init /\ [][NextCompile]_vars

---------------------------------------------------------------------------
(* A Parse in a process that has compiled other types before *)

CompileFirst(r) ==
    /\ phase = "idle"
    /\ Len(compiled) < MaxPrior
    /\ Compile(r)

NextCalls ==
    \/ \E r \in Roots : CompileFirst(r)
    \/ \E r \in Roots : \E s \in Strings(Alphabet(r), MaxLenC) : \E par \in ParamsOf(r) :
           Parse(r, s, par, "eof", FALSE)

SpecCalls == Init /\ [][NextCalls]_vars

---------------------------------------------------------------------------
(* The integer parsers alone: intParser.ParseValue (signed) and            *)
(* uintParser.ParseValue on a slot of `size' bits, at offset 0 of s.       *)

NumAlphabet == {"0", "2", "5", "6", "x", "f", "-"}

NumInputs == Strings(NumAlphabet, MaxNumLen)

\* widths of the destination slot: the accumulator's width and half of it
Sizes == {AccBits \div 2, AccBits}

InitNum ==
    /\ lr = [n \in Nodes |-> 0]
    /\ phase = "idle"
    /\ root = 0
    /\ str = <<>>
    /\ params = DefaultParams
    /\ user = "eof"
    /\ result = <<"none">>
    /\ ret = NoCall
    /\ ctx = NoCtx
    /\ hist = EmptyHist
    /\ compiled = <<>>
    /\ num \in [phase : {"in"}, s : NumInputs, size : Sizes, signed : BOOLEAN, v : {0}, l : {0}]
    /\ emitted = NoEmit
    /\ fn = NoFn

ParseNumber ==
    /\ num.phase = "in"
    /\ LET r == IF num.signed THEN parseInt64(num.s, 0, num.size)
                 ELSE parseUint64(num.s, 0, num.size)
       IN num' = [num EXCEPT !.phase = "out",
                             !.l = r.l,
                             !.v = IF r.l < 0 THEN 0
                                   ELSE IF num.signed THEN SetInt(r.v, num.size)
                                   ELSE SetUint(r.v, num.size)]
    /\ UNCHANGED <<lr, phase, root, str, params, user, result, ret, ctx, hist, compiled, emitted, fn>>

NextNum == ParseNumber

SpecNum == InitNum /\ [][NextNum]_vars

---------------------------------------------------------------------------
(* Error.Error alone: the text of a parse error for Str and Location *)

\* no Parse is running
ParseIdle ==
    /\ lr = [n \in Nodes |-> 0]
    /\ phase = "idle"
    /\ root = 0
    /\ str = <<>>
    /\ params = DefaultParams
    /\ user = "eof"
    /\ result = <<"none">>
    /\ ret = NoCall
    /\ ctx = NoCtx
    /\ hist = EmptyHist
    /\ compiled = <<>>
    /\ emitted = NoEmit

Here == "<!--here--!>"

RECURSIVE errorScan(_, _, _, _, _, _), lineEnd(_, _)

\* the second loop of Error: the offset of the next line feed from i on
lineEnd(s, i) == IF i < Len(s) /\ s[i + 1] # "\n" THEN lineEnd(s, i + 1) ELSE i

\* the snippet and the formatted numbers, after both loops
errorText(s, lineno, start, col, i) ==
    IF Len(s) > start + col - 1
    THEN IF start + col - 1 > i
         THEN [lineno |-> lineno, col |-> col, snippet |-> <<>>, panic |-> "slice bounds out of range"]
         ELSE [lineno |-> lineno, col |-> col, panic |-> NoPanic,
               snippet |-> SubStr(s, start, start + col - 1) \o <<Here>> \o SubStr(s, start + col - 1, i)]
    ELSE [lineno |-> lineno, col |-> col, snippet |-> SubStr(s, start, i), panic |-> NoPanic]

\* the first loop of Error, from i on
errorScan(s, loc, i, lineno, start, col) ==
    IF i < Len(s) - 1 /\ i < loc
    THEN IF s[i + 1] = "\n"
         THEN errorScan(s, loc, i + 1, lineno + 1, i + 1, 2)
         ELSE errorScan(s, loc, i + 1, lineno, start, col + 1)
    ELSE errorText(s, lineno, start, col, lineEnd(s, i))

\* Error{Str: s, Location: loc}.Error()
Error(s, loc) == errorScan(s, loc, 0, 1, 0, 1)

ErrAlphabet == {"a", "\n"}

InitErr ==
    /\ ParseIdle
    /\ num = NoNum
    /\ \E s \in Strings(ErrAlphabet, MaxErrLen) : \E loc \in 0..Len(s) :
           fn = [phase |-> "in", s |-> s, loc |-> loc, out |-> <<>>]

ErrorCall ==
    /\ fn.phase = "in"
    /\ fn' = [fn EXCEPT !.phase = "out", !.out = Error(fn.s, fn.loc)]
    /\ UNCHANGED <<lr, phase, root, str, params, user, result, ret, ctx, hist, compiled, num, emitted>>

NextErr == ErrorCall

SpecErr == InitErr /\ [][NextErr]_vars

---------------------------------------------------------------------------
(* Go string and character literals: parseUnicodeValue, parseString and    *)
(* the quoted branch of intParser.ParseValue for a 32-bit slot.  A byte of *)
(* the input is a one-character string; Ord is its value.  The bytes tried *)
(* are ASCII, for which utf8.DecodeRune returns the byte and length 1.     *)

\* the byte 0x60, which cannot be written in a string of this module
BackQuote == "0x60"

EscapedChar == [c \in {"\\", "a", "b", "f", "n", "r", "t", "v", BackQuote, "'", "\""} |->
    CASE c = "\\" -> 92 [] c = "a" -> 7 [] c = "b" -> 8 [] c = "f" -> 12
      [] c = "n" -> 10 [] c = "r" -> 13 [] c = "t" -> 9 [] c = "v" -> 11
      [] c = BackQuote -> 96 [] c = "'" -> 39 [] c = "\"" -> 34]

Ord(c) ==
    IF IsDec(c) THEN 48 + DecVal(c)
    ELSE IF InSeq(LowerHex, c) THEN 96 + IndexOf(LowerHex, c)
    ELSE IF InSeq(UpperHex, c) THEN 64 + IndexOf(UpperHex, c)
    ELSE CASE c = "\\" -> 92 [] c = BackQuote -> 96 [] c = "'" -> 39 [] c = "\"" -> 34
           [] c = "n" -> 110 [] c = "r" -> 114 [] c = "t" -> 116 [] c = "v" -> 118
           [] c = "x" -> 120 [] c = "u" -> 117 [] c = "U" -> 85
           [] c = "\r" -> 13 [] c = "\n" -> 10 [] c = "\t" -> 9 [] c = " " -> 32

URes(r, l) == [r |-> r, l |-> l, msg |-> NoErr, eloc |-> 0]
UErr(msg, eloc) == [r |-> 0, l |-> 0 - 1, msg |-> msg, eloc |-> eloc]

\* utf8.ValidRune
ValidRune(r) == (0 <= r /\ r < 55296) \/ (57343 < r /\ r <= 1114111)

RECURSIVE octalByte(_, _, _, _), hexCode(_, _, _, _, _)

\* the loop over the three digits of an octal_byte_value at `location'
octalByte(s, location, i, r) ==
    IF i >= 3 THEN URes(r, location + 3)
    ELSE IF IsOct(s[location + i + 1])
    THEN octalByte(s, location, i + 1, r * 8 + DecVal(s[location + i + 1]))
    ELSE UErr("Invalid character in octal_byte", location)

\* the loop over the l digits after x, u or U; location is that of the
\* first digit
hexCode(s, location, i, l, r) ==
    IF i >= l
    THEN IF ValidRune(r) THEN URes(r, location + l) ELSE UErr("Invalid rune", location)
    ELSE IF IsHex(s[location + i + 1])
    THEN hexCode(s, location, i + 1, l, r * 16 + HexVal(s[location + i + 1]))
    ELSE UErr("Illegal character in hex code", location)

\* parseUnicodeValue after the backslash; location is that of the next byte
escapedValue(s, location) ==
    IF location >= Len(s) THEN UErr("Unexpected end of file in escape sequence", location)
    ELSE LET c == s[location + 1] IN
         IF c \in DOMAIN EscapedChar THEN URes(EscapedChar[c], location + 1)
         ELSE IF Ord(c) >= Ord("0") /\ Ord(c) < 3
         THEN IF location + 2 >= Len(s)
              THEN UErr("Unexpected end of file in escape sequence", location)
              ELSE octalByte(s, location, 0, 0)
         ELSE IF c \in {"x", "u", "U"}
         THEN LET l == IF c = "x" THEN 2 ELSE IF c = "u" THEN 4 ELSE 8 IN
              IF location + l >= Len(s)
              THEN UErr("Unexpected end of file in escape sequence", location)
              ELSE hexCode(s, location + 1, 0, l, 0)
         ELSE UErr("Invalid escaped char", location)

parseUnicodeValue(s, location) ==
    IF location >= Len(s)
    THEN UErr("Unexpected end of file: waiting for Unicode character", location)
    ELSE IF s[location + 1] = "\\" THEN escapedValue(s, location + 1)
    ELSE URes(Ord(s[location + 1]), location + 1)

\* bytes.Buffer.WriteRune: the UTF-8 encoding of r
EncodeRune(r) ==
    IF r < 128 THEN <<r>>
    ELSE IF r < 2048 THEN <<192 + (r \div 64), 128 + (r % 64)>>
    ELSE IF r < 65536
    THEN <<224 + (r \div 4096), 128 + ((r \div 64) % 64), 128 + (r % 64)>>
    ELSE <<240 + (r \div 262144), 128 + ((r \div 4096) % 64), 128 + ((r \div 64) % 64),
           128 + (r % 64)>>

SRes(v, l, msg) == [v |-> v, l |-> l, msg |-> msg, panic |-> NoPanic]

RECURSIVE rawString(_, _, _), interpretedString(_, _, _)

rawString(s, location, buf) ==
    IF location < Len(s)
    THEN IF s[location + 1] = BackQuote THEN SRes(buf, location + 1, NoErr)
         ELSE IF s[location + 1] = "\r" THEN rawString(s, location + 1, buf)
         ELSE rawString(s, location + 1, Append(buf, Ord(s[location + 1])))
    ELSE SRes(<<>>, 0 - 1, "Waiting for Go string")

interpretedString(s, location, buf) ==
    IF location < Len(s)
    THEN IF s[location + 1] = "\""
         THEN SRes(buf, location + 1, NoErr)
         ELSE LET u == parseUnicodeValue(s, location) IN
              IF u.l < 0 THEN SRes(<<>>, u.l, u.msg)
              ELSE IF u.r >= 128 /\ u.r <= 255 /\ u.l - location = 4
              THEN interpretedString(s, u.l, Append(buf, u.r))
              ELSE interpretedString(s, u.l, buf \o EncodeRune(u.r))
    ELSE SRes(<<>>, 0 - 1, "Waiting for Go string")

\* the value is the list of the bytes of the Go string
parseString(s, location) ==
    IF location >= Len(s)
    THEN [v |-> <<>>, l |-> 0 - 1, msg |-> NoErr, panic |-> "index out of range"]
    ELSE IF s[location + 1] = BackQuote THEN rawString(s, location + 1, <<>>)
    ELSE IF s[location + 1] = "\"" THEN interpretedString(s, location + 1, <<>>)
    ELSE SRes(<<>>, 0 - 1, "Waiting for Go string")

\* intParser.ParseValue on a 32-bit slot when str[location] is a single
\* quote; the value is the rune
runeLiteral(s, location) ==
    LET u == parseUnicodeValue(s, location + 1) IN
    IF u.l < 0 THEN SRes(0, u.l, u.msg)
    ELSE IF u.l >= Len(s) \/ s[u.l + 1] # "'"
    THEN SRes(0, 0 - 1, "Waiting for closing quote in unicode character")
    ELSE SRes(u.r, u.l + 1, NoErr)

EscAlphabet == {"\\", "\"", "'", "0", "1", "2", "7", "8", "n"}

\* an opening quote, the text, and the closing quote or none
Quoted(q, body, closed) == <<q>> \o body \o (IF closed THEN <<q>> ELSE <<>>)

InitEsc ==
    /\ ParseIdle
    /\ num = NoNum
    /\ \E op \in {"string", "rune"} : \E body \in Strings(EscAlphabet, MaxEscLen) :
       \E closed \in BOOLEAN :
           fn = [phase |-> "in", op |-> op, out |-> <<>>,
                 s |-> Quoted(IF op = "string" THEN "\"" ELSE "'", body, closed)]

ParseStringCall ==
    /\ fn.phase = "in" /\ fn.op = "string"
    /\ fn' = [fn EXCEPT !.phase = "out", !.out = parseString(fn.s, 0)]
    /\ UNCHANGED <<lr, phase, root, str, params, user, result, ret, ctx, hist, compiled, num, emitted>>

ParseRuneCall ==
    /\ fn.phase = "in" /\ fn.op = "rune"
    /\ fn' = [fn EXCEPT !.phase = "out", !.out = runeLiteral(fn.s, 0)]
    /\ UNCHANGED <<lr, phase, root, str, params, user, result, ret, ctx, hist, compiled, num, emitted>>

NextEsc == ParseStringCall \/ ParseRuneCall

SpecEsc == InitEsc /\ [][NextEsc]_vars

---------------------------------------------------------------------------
(* The comment skippers: SkipMultilineComment and the three styles built   *)
(* on it.  A style is its opening marker, its closing marker and whether   *)
(* comments nest.                                                          *)

Style(begin, end, recursive) == [begin |-> begin, end |-> end, recursive |-> recursive]

SkipCComment == Style(<<"/", "*">>, <<"*", "/">>, FALSE)
SkipPascalComment == Style(<<"(", "*">>, <<"*", ")">>, TRUE)
SkipHTMLComment == Style(<<"<", "!", "-", "-">>, <<"-", "-", ">">>, FALSE)
\* a direct call with markers of one byte
SkipBraces(recursive) == Style(<<"{">>, <<"}">>, recursive)

Styles == {SkipCComment, SkipPascalComment, SkipHTMLComment, SkipBraces(FALSE), SkipBraces(TRUE)}

RECURSIVE SkipMultilineComment(_, _, _), skipLoop(_, _, _, _)

\* the nested comment at i has been skipped to j
skipNested(s, loc, i, st, j) ==
    IF j = i THEN loc ELSE skipLoop(s, loc, j, st)

\* the loop of SkipMultilineComment, from i on
skipLoop(s, loc, i, st) ==
    IF i < Len(s) - Len(st.end)
    THEN IF strAt(s, i, st.end) THEN i + Len(st.end)
         ELSE IF st.recursive /\ strAt(s, i, st.begin)
         THEN skipNested(s, loc, i, st, SkipMultilineComment(s, i, st))
         ELSE skipLoop(s, loc, i + 1, st)
    ELSE loc

SkipMultilineComment(s, loc, st) ==
    IF strAt(s, loc, st.begin) THEN skipLoop(s, loc, loc + Len(st.begin), st) ELSE loc

\* the bytes tried for a style: those of its markers, and one more
SkipAlphabet(st) == {st.begin[i] : i \in 1..Len(st.begin)} \cup {st.end[i] : i \in 1..Len(st.end)}
                        \cup (IF Len(st.begin) + Len(st.end) > 5 THEN {} ELSE {"a"})

InitSkip ==
    /\ ParseIdle
    /\ num = NoNum
    /\ \E st \in Styles : \E s \in Strings(SkipAlphabet(st), MaxSkipLen) :
       \E loc \in {0, 1} \cap (0..Len(s)) :
           fn = [phase |-> "in", st |-> st, s |-> s, loc |-> loc, out |-> 0]

SkipCall ==
    /\ fn.phase = "in"
    /\ fn' = [fn EXCEPT !.phase = "out", !.out = SkipMultilineComment(fn.s, fn.loc, fn.st)]
    /\ UNCHANGED <<lr, phase, root, str, params, user, result, ret, ctx, hist, compiled, num, emitted>>

NextSkip == SkipCall

SpecSkip == InitSkip /\ [][NextSkip]_vars

---------------------------------------------------------------------------
(* Compiling a type: compileInternal, compileType and appendField on the   *)
(* descriptor of a type.  The type of a field is a leaf type, a slice of   *)
(* one or a pointer to one; a leaf names the Go type together with the tag *)
(* that selects its parser ("chan" is a type no parser exists for, "badrx" *)
(* a string whose regexp tag does not compile).  Every call starts from an *)
(* empty _compiledParsers, so the cache is not part of the result.         *)

Leaves == {"string", "lit", "rx", "badrx", "uint", "chan"}
Wraps == {"none", "slice", "ptr"}

Compiled1(p) == [err |-> FALSE, p |-> p]
CompileError(msg) == [err |-> TRUE, p |-> <<msg>>]

\* compileType for a leaf type with its tag
compileLeaf(leaf) ==
    CASE leaf = "string" -> Compiled1(<<"stringParser">>)
      [] leaf = "lit" -> Compiled1(<<"literalParser">>)
      [] leaf = "rx" -> Compiled1(<<"regexpParser">>)
      [] leaf = "badrx" -> CompileError("error parsing regexp")
      [] leaf = "uint" -> Compiled1(<<"uintParser">>)
      [] OTHER -> CompileError("Invalid argument for Compile: unsupported type")

\* the element type of a slice is compiled with an empty tag
Untagged(leaf) == IF leaf \in {"lit", "rx", "badrx"} THEN "string" ELSE leaf

wrapped(kind, r) == IF r.err THEN r ELSE Compiled1(<<kind>> \o r.p)

\* compileInternal for the type of a field
compileInternal(wrap, leaf) ==
    CASE wrap = "slice" -> wrapped("sliceParser", compileLeaf(Untagged(leaf)))
      [] wrap = "ptr" -> wrapped("ptrParser", compileLeaf(leaf))
      [] OTHER -> compileLeaf(leaf)

IsPrivate(name) == name = "a"

\* appendField: the list of fields after the field f, and the error returned
appendField(fields, f) ==
    IF f.skip THEN [err |-> FALSE, fields |-> fields]
    ELSE IF f.name # "_" /\ IsPrivate(f.name) THEN [err |-> FALSE, fields |-> fields]
    ELSE IF compileInternal(f.wrap, f.leaf).err THEN [err |-> FALSE, fields |-> fields]
    ELSE [err |-> FALSE,
          fields |-> Append(fields, <<f.name, compileInternal(f.wrap, f.leaf).p>>)]

RECURSIVE structFields(_, _, _)
\* the loop of compileType over the fields of a struct, from field i on
structFields(tf, i, r) ==
    IF r.err THEN CompileError("appendField")
    ELSE IF i > Len(tf) THEN Compiled1(<<"sequenceParser", r.fields>>)
    ELSE structFields(tf, i + 1, appendField(r.fields, tf[i]))

compileType(ty) ==
    IF ty.struct THEN structFields(ty.fields, 1, [err |-> FALSE, fields |-> <<>>])
    ELSE compileInternal(ty.wrap, ty.leaf)

TypeFields == [name : {"A", "a"}, skip : BOOLEAN, wrap : Wraps, leaf : Leaves]

StructTypes == {[struct |-> TRUE, fields |-> fs, wrap |-> "none", leaf |-> "string"] :
                    fs \in UNION {[1..k -> TypeFields] : k \in 1..MaxFields}}
PlainTypes == {[struct |-> FALSE, fields |-> <<>>, wrap |-> w, leaf |-> l] : w \in Wraps, l \in Leaves}

InitTypes ==
    /\ ParseIdle
    /\ num = NoNum
    /\ \E ty \in StructTypes \cup PlainTypes : fn = [phase |-> "in", ty |-> ty, out |-> <<>>]

\* compile(type_of, "") as Parse and Write call it; its error is what they return
CompileType ==
    /\ fn.phase = "in"
    /\ fn' = [fn EXCEPT !.phase = "out", !.out = compileType(fn.ty)]
    /\ UNCHANGED <<lr, phase, root, str, params, user, result, ret, ctx, hist, compiled, num, emitted>>

NextTypes == CompileType

SpecTypes == InitTypes /\ [][NextTypes]_vars

---------------------------------------------------------------------------
(* The primitive parsers alone, called at any offset of the input up to    *)
(* its end.  A call returns the new offset (negative: it has failed), the  *)
(* message it has put into err, and the run-time panic it has died of.     *)

MaxEndLen == 2

EndRes(l, msg, panic) == [l |-> l, msg |-> msg, panic |-> panic]

boolError == "Waiting for boolean value"

IsWordByte(ch) == ch \in {"_", "a", "e", "t", "r", "u", "1"}

\* boolParser.ParseValue after the word, which ends at location
boolEnd(s, location) ==
    IF location < Len(s) /\ IsWordByte(s[location + 1])
    THEN EndRes(-1, boolError, NoPanic)
    ELSE EndRes(location, NoErr, NoPanic)

boolParser_ParseValue(s, location) ==
    IF strAt(s, location, <<"t", "r", "u", "e">>) THEN boolEnd(s, location + 4)
    ELSE IF strAt(s, location, <<"f", "a", "l", "s", "e">>) THEN boolEnd(s, location + 5)
    ELSE EndRes(-1, boolError, NoPanic)

\* regexpParser.ParseValue with the pattern n
regexpAt(n, s, location) ==
    IF RegexpFind(n, s, location) < 0
    THEN EndRes(-1, "Waiting for regexp", NoPanic)
    ELSE EndRes(location + RegexpFind(n, s, location), NoErr, NoPanic)

\* literalParser.ParseValue with the literal lit
literalAt(lit, s, location) ==
    IF strAt(s, location, lit) THEN EndRes(location + Len(lit), NoErr, NoPanic)
    ELSE EndRes(-1, "Waiting for literal", NoPanic)

\* floatRegexp.Find on inputs without sign, point and exponent: the digits
floatParser_ParseValue(s, location) ==
    IF Run(s, location, {"1"}) = 0
    THEN EndRes(-1, "Waiting for floating point number", NoPanic)
    ELSE EndRes(location + Run(s, location, {"1"}), NoErr, NoPanic)

\* intParser.ParseValue on a slot of 32 bits
int32Parser_ParseValue(s, location) ==
    IF location < Len(s) /\ s[location + 1] = "'"
    THEN EndRes(runeLiteral(s, location).l, runeLiteral(s, location).msg, runeLiteral(s, location).panic)
    ELSE EndRes(parseInt64(s, location, AccBits).l, parseInt64(s, location, AccBits).msg, NoPanic)

Primitives == {"bool", "regexp", "nullable regexp", "literal", "empty literal", "string",
               "int", "rune", "uint", "float", "location"}

\* p.ParseValue(ctx, valueOf, location, err) of the primitive parser op
PrimitiveAt(op, s, location) ==
    CASE op = "bool" -> boolParser_ParseValue(s, location)
      [] op = "regexp" -> regexpAt([cls |-> {"1"}, quant |-> "plus"], s, location)
      [] op = "nullable regexp" -> regexpAt([cls |-> {"1"}, quant |-> "star"], s, location)
      [] op = "literal" -> literalAt(<<"a">>, s, location)
      [] op = "empty literal" -> literalAt(<<>>, s, location)
      [] op = "string" -> EndRes(parseString(s, location).l, parseString(s, location).msg,
                                 parseString(s, location).panic)
      [] op = "int" -> EndRes(parseInt64(s, location, AccBits).l,
                              parseInt64(s, location, AccBits).msg, NoPanic)
      [] op = "rune" -> int32Parser_ParseValue(s, location)
      [] op = "uint" -> EndRes(parseUint64(s, location, AccBits).l,
                               parseUint64(s, location, AccBits).msg, NoPanic)
      [] op = "float" -> floatParser_ParseValue(s, location)
      [] op = "location" -> EndRes(location, NoErr, NoPanic)

EndAlphabet == {"a", "1", "\"", " "}

InitEnd ==
    /\ ParseIdle
    /\ num = NoNum
    /\ \E op \in Primitives : \E s \in Strings(EndAlphabet, MaxEndLen) : \E loc \in 0..Len(s) :
           fn = [phase |-> "in", op |-> op, s |-> s, loc |-> loc, out |-> EndRes(0, NoErr, NoPanic)]

PrimitiveCall ==
    /\ fn.phase = "in"
    /\ fn' = [fn EXCEPT !.phase = "out", !.out = PrimitiveAt(fn.op, fn.s, fn.loc)]
    /\ UNCHANGED <<lr, phase, root, str, params, user, result, ret, ctx, hist, compiled, num, emitted>>

NextEnd == PrimitiveCall

SpecEnd == InitEnd /\ [][NextEnd]_vars

---------------------------------------------------------------------------
(* Left recursion of the grammar itself, independent of the analysis:      *)
(* the least set of nullable parsers, the parsers a parser may invoke at   *)
(* its own starting offset, and reachability along those.                  *)

FieldNullable(f, S) == f.Flags # 0 \/ f.Parse \in S

NullableStep(S) ==
    S \cup {p \in Nodes :
        LET n == Node[p] IN
        CASE n.kind = "regexp" -> n.quant = "star"
          [] n.kind = "literal" -> Len(n.Literal) = 0
          [] n.kind \in {"location", "parser"} -> TRUE
          [] n.kind = "sequence" -> \A i \in 1..Len(n.Fields) : FieldNullable(n.Fields[i], S)
          [] n.kind = "firstOf" -> \E i \in 1..Len(n.Fields) : FieldNullable(n.Fields[i], S)
          [] n.kind = "slice" -> n.Min = 0 \/ n.Parser \in S
          [] n.kind = "ptr" -> n.Optional \/ n.Parser \in S
          [] OTHER -> FALSE}

RECURSIVE NullableFrom(_)
NullableFrom(S) == LET S1 == NullableStep(S) IN IF S1 = S THEN S ELSE NullableFrom(S1)

NullableNodes == NullableFrom({})

LeftChildren(p) ==
    LET n == Node[p] IN
    CASE n.kind = "sequence" ->
            {n.Fields[i].Parse : i \in {j \in 1..Len(n.Fields) :
                \A k \in 1..(j - 1) : FieldNullable(n.Fields[k], NullableNodes)}}
      [] n.kind = "firstOf" -> {n.Fields[i].Parse : i \in 1..Len(n.Fields)}
      [] n.kind \in {"slice", "ptr"} -> {n.Parser}
      [] OTHER -> {}

RECURSIVE LeftReach(_)
LeftReach(S) ==
    LET S1 == S \cup UNION {LeftChildren(q) : q \in S} IN
    IF S1 = S THEN S ELSE LeftReach(S1)

LeftRecursive(p) == p \in LeftReach(LeftChildren(p))

\* C2: every parser the analysis has marked non-LR (lr = +1) is not
\* left-recursive, after any sequence of compile calls.
C2_NonLRIsSound == \A p \in Nodes : lr[p] > 0 => ~LeftRecursive(p)

---------------------------------------------------------------------------
(* Left-recursive expressions `n - n - ... - n' and the trees they denote *)

RECURSIVE Ones(_, _), Blanks(_, _), OperandsFrom(_, _, _), LeftAssoc(_, _)
Ones(s, i) == IF i < Len(s) /\ s[i + 1] = "1" THEN 1 + Ones(s, i + 1) ELSE 0
Blanks(s, i) == IF i < Len(s) /\ s[i + 1] = " " THEN 1 + Blanks(s, i + 1) ELSE 0

\* the operands of the expression that starts at offset i, <<>> if s is not one
OperandsFrom(s, i, acc) ==
    LET n == Ones(s, i)
        j == i + n + Blanks(s, i + n)
        nums == Append(acc, [k \in 1..n |-> "1"])
    IN IF n = 0 THEN <<>>
       ELSE IF j = Len(s) THEN nums
       ELSE IF s[j + 1] = "-" THEN OperandsFrom(s, j + 1 + Blanks(s, j + 1), nums)
       ELSE <<>>

Operands(s) == OperandsFrom(s, Blanks(s, 0), <<>>)

\* ((n1 - n2) - ...) - nk
LeftAssoc(nums, k) ==
    IF k = 1 THEN <<"N", nums[1]>> ELSE <<"A", LeftAssoc(nums, k - 1), nums[k]>>

\* the tree a value of type Rt or Et stands for: the branch its tag names
RECURSIVE RtTree(_), EtTree(_)
RtTree(v) ==
    IF v[2] = "A"
    THEN IF v[3][1][1] # "ptr" THEN <<"A", <<"nil">>>>
         ELSE LET a == FieldsOf(v[3][1][2]) IN <<"A", RtTree(a[1]), a[3][2]>>
    ELSE <<v[2], v[3][2][2]>>

EtTree(v) ==
    IF v[2] = "M"
    THEN LET m == FieldsOf(v[3][1])
             e == FieldsOf(m[1])[1]
         IN IF e[1] # "ptr" THEN <<"A", <<"nil">>>> ELSE <<"A", EtTree(e[2]), m[3][2]>>
    ELSE <<v[2], v[3][2][2]>>

TreeOf(r, v) ==
    IF r = Rt THEN RtTree(v)
    ELSE LET e == FieldsOf(v)[1] IN IF e[1] # "ptr" THEN <<"nil">> ELSE EtTree(e[2])

\* C1: for the directly (Rt) and the indirectly (Xt, Et) left-recursive
\* grammar, Parse with whitespace skipping on an input n - n - ... - n
\* succeeds, returns the length of the input and fills the left-associative
\* tree whose tags name the recursive branch at every level but the innermost.
C1_LeftRecursionParsed ==
    (phase = "done" /\ root \in LRRoots /\ params.SkipWhite /\ Operands(str) # <<>>) =>
        /\ ret.panic = NoPanic
        /\ ret.l = Len(str)
        /\ TreeOf(root, result) = LeftAssoc(Operands(str), Len(Operands(str)))

C1_Witness ==
    /\ phase = "done" /\ root = Xt /\ params.SkipWhite /\ ~params.PackratEnabled
    /\ Len(Operands(str)) = 3
    /\ ret.l = Len(str)
    /\ TreeOf(root, result)[1] = "A" /\ TreeOf(root, result)[2][1] = "A"

\* C3: the seed-growing loop ends; every replacement of a seed stores an
\* offset strictly greater than the seed's, and the loop stops at the first
\* reparse that fails or goes no further than the seed.
C3_SeedLoopConverges ==
    phase = "done" =>
        /\ ret.panic # "seed loop does not end"
        /\ hist.iters < MaxGrow
        /\ \A e \in hist.seeds : e[3] > e[2] /\ e[3] <= Len(str)
        /\ \A e \in hist.stops : e[3] < 0 \/ e[3] <= e[2]
        /\ \A g \in hist.grown : \E e \in hist.stops : e[1] = g[1] /\ e[2] = g[2]

C3_Witness ==
    /\ phase = "done" /\ ret.panic = NoPanic
    /\ \E a, b \in hist.seeds :
           /\ a[1] = b[1] /\ a[3] = b[2]
           /\ \E e \in hist.stops : e[1] = a[1] /\ e[2] = b[3] /\ e[3] >= 0
           /\ <<a[1], b[3]>> \in hist.grown

---------------------------------------------------------------------------
(* Grammars without left recursion *)

Children(p) ==
    LET n == Node[p] IN
    CASE n.kind \in {"sequence", "firstOf"} -> {n.Fields[i].Parse : i \in 1..Len(n.Fields)}
      [] n.kind \in {"slice", "ptr"} -> {n.Parser}
      [] OTHER -> {}

RECURSIVE Reach(_)
Reach(S) ==
    LET S1 == S \cup UNION {Children(q) : q \in S} IN
    IF S1 = S THEN S ELSE Reach(S1)

NoLeftRecursion(r) == \A p \in Reach({r}) : ~LeftRecursive(p)

\* the same Parse with the other value of PackratEnabled
OtherRun ==
    Run1(root, str, [params EXCEPT !.PackratEnabled = ~params.PackratEnabled], user, hist.prior, lr)

\* x is the outcome Parse has returned
SameOutcome(x) == x.ctx.panic = ret.panic /\ x.l = ret.l /\ x.v = result

\* C4: for a grammar without left recursion, Parse returns the same
\* success or failure, the same offset and the same filled value with
\* PackratEnabled = true and with PackratEnabled = false.
C4_PackratInvariance ==
    (phase = "done" /\ NoLeftRecursion(root)) => SameOutcome(OtherRun)

\* C5: when Parse fails, the offset of the error it returns is at least the
\* offset of every failure recorded during the call.
C5_FurthestError ==
    (phase = "done" /\ ret.l < 0 /\ ret.panic = NoPanic) =>
        \A f \in hist.fails : ret.err.Location >= f

C7_EveryElementConsumes ==
    phase = "done" => \A e \in hist.elems : e[3] > e[2]

---------------------------------------------------------------------------
(* The FirstOf at the top of the result *)

TopFirstOf == IF root = Xt THEN Et ELSE root

TopValue == IF root = Xt THEN FieldsOf(result)[1][2] ELSE result

\* the slot the FirstOf is parsed into: ptrParser.ParseValue makes a new one
TopPrior ==
    IF root = Xt THEN Zero(Et) ELSE hist.prior

StartOffset == skipWS(NewContext(str, params, user, lr), 0)

\* the i-th field of the FirstOf parsed on its own at the starting offset
FieldAlone(i) ==
    field_ParseValue(Node[TopFirstOf].Fields[i], i, TopPrior, StartOffset,
                     NewContext(str, params, user, lr))

C10_OptionalPointerNil ==
    phase = "done" => \A e \in hist.ptrs : e[3] = <<"nil">>

\* C11: whenever the method named by a field's `set' tag returns an error,
\* the field returns a negative offset, the enclosing Sequence fails, and the
\* error is located at the field's post-parse offset l, for l = 0 as well.
C11_SetErrorFails ==
    phase = "done" =>
        \A e \in hist.sets : e[3] < 0 /\ ret.l < 0 /\ ret.err.Location = e[2]

\* the roots compile has returned so far
CompiledRoots == {compiled[i] : i \in 1..Len(compiled)}

\* C12: once compile has returned a root, no later compile (of any root)
\* writes the lr of a parser reachable from that root.
C12_LRFrozenAfterCompile ==
    [][\A r \in CompiledRoots : \A p \in Reach({r}) : lr'[p] = lr[p]]_vars

\* the grammars built from literals and integers only
RoundTrippable(r) ==
    \A p \in Reach({r}) :
        Node[p].kind \in {"literal", "uint", "int", "sequence", "firstOf", "slice", "ptr"}

\* s without its whitespace
Strip(s) == SelectSeq(s, LAMBDA ch : ch \notin WhiteChars)

\* C13: for a grammar of round-trippable primitives and an input that Parse
\* has consumed to its end, filling a zero value, Append succeeds and the
\* text it returns equals the input up to whitespace.
C13_RoundTrip ==
    (emitted # NoEmit /\ RoundTrippable(root) /\ hist.prior = Zero(root) /\ ret.l = Len(str)) =>
        /\ emitted.err = ""
        /\ Strip(emitted.text) = Strip(str)

\* the same Parse as the first call of a process
FreshRun == Run1(root, str, params, user, hist.prior, compile(root, [n \in Nodes |-> 0]))

\* C14: Parse returns the offset and the value it returns in a process that
\* has compiled nothing before, whatever was compiled before the call.
C14_ParseIndependentOfHistory ==
    phase = "done" => SameOutcome(FreshRun)

---------------------------------------------------------------------------
(* The line and the column of an offset *)

\* the offset at which the line holding offset loc begins
RECURSIVE LineStart(_, _)
LineStart(s, loc) ==
    IF loc = 0 THEN 0
    ELSE IF s[loc] = "\n" THEN loc
    ELSE LineStart(s, loc - 1)

LineFeedsBefore(s, loc) == Cardinality({i \in 1..loc : s[i] = "\n"})

\* C15: Error() reports the 1-based line of Location and the 1-based column
\* of Location within that line, and the snippet is that line with the
\* marker inserted at Location.
C15_ErrorText ==
    fn.phase = "out" =>
        /\ fn.out.panic = NoPanic
        /\ fn.out.lineno = LineFeedsBefore(fn.s, fn.loc) + 1
        /\ fn.out.col = fn.loc - LineStart(fn.s, fn.loc) + 1
        /\ fn.out.snippet = SubStr(fn.s, LineStart(fn.s, fn.loc), fn.loc) \o <<Here>>
                                \o SubStr(fn.s, fn.loc, lineEnd(fn.s, fn.loc))

---------------------------------------------------------------------------
(* The language a^n b^n c^n, n >= 1 *)

IsAnBnCn(s) ==
    \E n \in 1..Len(s) :
        /\ Len(s) = 3 * n
        /\ \A i \in 1..n : s[i] = "a" /\ s[n + i] = "b" /\ s[2 * n + i] = "c"

\* C16: with packrat enabled and no whitespace skipping, Parse of the
\* lookahead grammar abcS succeeds exactly on the inputs a^n b^n c^n, n >= 1,
\* and then returns the length of the input.
C16_LookaheadGrammar ==
    (phase = "done" /\ root = abcS /\ params.PackratEnabled /\ ~params.SkipWhite) =>
        /\ ret.panic = NoPanic
        /\ ret.l >= 0 <=> IsAnBnCn(str)
        /\ ret.l >= 0 => ret.l = Len(str)

C16_Witness ==
    /\ phase = "done" /\ root = abcS /\ params.PackratEnabled /\ ~params.SkipWhite
    /\ str = <<"a", "a", "b", "b", "c", "c">>
    /\ ret.l = 6
    /\ hist.hits # {}

---------------------------------------------------------------------------
(* The integer literal at the start of a string and the number it denotes: *)
(* [-] ( 0x hexdigits | 0 octdigits | [1-9] decdigits )                    *)

LitStart(s, signed) == IF signed /\ Len(s) > 0 /\ s[1] = "-" THEN 1 ELSE 0

LitBase(s, i) ==
    IF i >= Len(s) THEN 0
    ELSE IF s[i + 1] = "0"
    THEN IF i + 2 < Len(s) /\ s[i + 2] \in {"x", "X"} /\ IsHex(s[i + 3]) THEN 16 ELSE 8
    ELSE IF IsDec(s[i + 1]) THEN 10
    ELSE 0

InBase(c, base) == IF base = 16 THEN IsHex(c) ELSE IF base = 8 THEN IsOct(c) ELSE IsDec(c)

RECURSIVE DigitsValue(_, _, _, _)
DigitsValue(s, i, base, acc) ==
    IF i < Len(s) /\ InBase(s[i + 1], base)
    THEN DigitsValue(s, i + 1, base, acc * base + HexVal(s[i + 1]))
    ELSE acc

HasLiteral(s, signed) == LitBase(s, LitStart(s, signed)) # 0

LiteralValue(s, signed) ==
    LET i == LitStart(s, signed)
        base == LitBase(s, i)
        mag == DigitsValue(s, IF base = 16 THEN i + 2 ELSE i, base, 0)
    IN IF i = 1 THEN 0 - mag ELSE mag

Fits(x, size, signed) ==
    IF signed THEN 0 - Pow2(size - 1) <= x /\ x < Pow2(size - 1)
    ELSE 0 <= x /\ x < Pow2(size)

\* C9: parsing a decimal, hexadecimal or octal literal whose value does not
\* fit the destination slot of width `size' (unsigned or signed) fails.
C9_OverflowFails ==
    (num.phase = "out" /\ HasLiteral(num.s, num.signed)
        /\ ~Fits(LiteralValue(num.s, num.signed), num.size, num.signed)) => num.l < 0

\* the form of the literal at offset i: 16, 8 or 10, and 0 when the bytes at i
\* are none of the three forms; 0x needs a hexadecimal digit after it
LitForm(s, i) ==
    IF i + 1 < Len(s) /\ s[i + 1] = "0" /\ s[i + 2] \in {"x", "X"}
    THEN IF i + 2 < Len(s) /\ IsHex(s[i + 3]) THEN 16 ELSE 0
    ELSE LitBase(s, i)

RECURSIVE DigitsEnd(_, _, _)
DigitsEnd(s, i, base) ==
    IF i < Len(s) /\ InBase(s[i + 1], base) THEN DigitsEnd(s, i + 1, base) ELSE i

\* the offset just past the literal that starts at offset i
LitEnd(s, i) ==
    LET base == LitForm(s, i)
    IN DigitsEnd(s, IF base = 16 THEN i + 2 ELSE i, base)

\* C17: the integer parsers accept exactly the three literal forms (with a
\* leading '-' for a signed slot): on a literal whose value fits the slot
\* they return the offset just past it and store its value, and on anything
\* else they fail.
C17_IntegerLiteralForms ==
    num.phase = "out" =>
        LET i == LitStart(num.s, num.signed)
        IN IF LitForm(num.s, i) = 0
           THEN num.l < 0
           ELSE Fits(LiteralValue(num.s, num.signed), num.size, num.signed) =>
                    /\ num.l = LitEnd(num.s, i)
                    /\ num.v = LiteralValue(num.s, num.signed)

---------------------------------------------------------------------------
(* The calls of sequenceParser.ParseValue of one Parse.  hist.seq holds    *)
(* <<id, p, i, from, to>> for the i-th field of call id of the Sequence p, *)
(* called at offset `from' and returning `to'; hist.ends holds             *)
(* <<id, p, l>> for the offset l that call id has returned.                *)

SeqField(e) == Node[e[2]].Fields[e[3]]

Skipped(s, l) == l = Len(s) \/ s[l + 1] \notin WhiteChars

\* C18: in every run of a Sequence the fields are parsed in order, each at
\* the offset that the field before it returned, and no field is parsed
\* after one that failed; an ordinary field that succeeds ends past the
\* whitespace that follows it; the Sequence returns what its last field
\* returned, or the failure of the field that failed.
C18_SequenceOrder ==
    phase = "done" =>
        /\ \A e \in hist.seq :
               e[3] > 1 => \E d \in hist.seq : /\ d[1] = e[1] /\ d[3] = e[3] - 1
                                                /\ d[5] >= 0 /\ d[5] = e[4]
        /\ \A e \in hist.seq :
               (SeqField(e).Flags = 0 /\ e[5] >= 0 /\ params.SkipWhite) => Skipped(str, e[5])
        /\ \A q \in hist.ends :
               IF q[3] >= 0
               THEN \/ Len(Node[q[2]].Fields) = 0
                    \/ \E e \in hist.seq : /\ e[1] = q[1] /\ e[3] = Len(Node[q[2]].Fields)
                                             /\ e[5] = q[3]
               ELSE \E e \in hist.seq :
                        /\ e[1] = q[1] /\ e[5] = q[3]
                        /\ \A d \in hist.seq : d[1] = e[1] => d[3] <= e[3]

\* the Hello grammar on the input of TestParse
C18_Witness ==
    /\ phase = "done" /\ root = hello /\ str = HelloInput /\ params.SkipWhite
    /\ ret.l = 18
    /\ hist.seq = {<<0, hello, 1, 0, 9>>, <<0, hello, 2, 9, 13>>, <<0, hello, 3, 13, 18>>}
    /\ hist.ends = {<<0, hello, 18>>}

---------------------------------------------------------------------------
\* a quoted literal whose text is one escape \ddd of three octal digits, the
\* first of them 0, 1 or 2
IsOctalEscape(s) ==
    /\ Len(s) = 6
    /\ s[1] = s[6] /\ s[1] \in {"\"", "'"}
    /\ s[2] = "\\"
    /\ s[3] \in {"0", "1", "2"} /\ IsOct(s[4]) /\ IsOct(s[5])

OctalValue(s) == 64 * DecVal(s[3]) + 8 * DecVal(s[4]) + DecVal(s[5])

\* C19: a double-quoted string and a single-quoted character literal whose
\* text is an escape \ddd of three octal digits with first digit 0, 1 or 2
\* are accepted to the closing quote and yield the value of the digits.
C19_OctalEscape ==
    (fn.phase = "out" /\ IsOctalEscape(fn.s)) =>
        /\ fn.out.panic = NoPanic
        /\ fn.out.l = Len(fn.s)
        /\ fn.out.v = IF fn.op = "string" THEN <<OctalValue(fn.s)>> ELSE OctalValue(fn.s)

---------------------------------------------------------------------------
\* the offset just past the closing marker that matches the opening marker
\* at loc, or -1 when there is none; `open' counts the comments begun and
\* not yet closed
RECURSIVE MatchingEnd(_, _, _, _)
MatchingEnd(s, i, st, open) ==
    IF i >= Len(s) THEN 0 - 1
    ELSE IF strAt(s, i, st.end)
    THEN IF open = 1 THEN i + Len(st.end)
         ELSE MatchingEnd(s, i + Len(st.end), st, open - 1)
    ELSE IF st.recursive /\ strAt(s, i, st.begin)
    THEN MatchingEnd(s, i + Len(st.begin), st, open + 1)
    ELSE MatchingEnd(s, i + 1, st, open)

CommentEnd(s, loc, st) ==
    IF strAt(s, loc, st.begin) THEN MatchingEnd(s, loc + Len(st.begin), st, 1) ELSE 0 - 1

\* C20: SkipMultilineComment returns the offset just past the closing marker
\* that matches the opening marker at loc, also when that marker ends the
\* input, and loc when there is no comment at loc or it is not closed.
C20_SkipMultilineComment ==
    fn.phase = "out" =>
        fn.out = IF CommentEnd(fn.s, fn.loc, fn.st) >= 0
                 THEN CommentEnd(fn.s, fn.loc, fn.st) ELSE fn.loc

---------------------------------------------------------------------------
\* a field that compile has to look at and whose type has no parser
Uncompilable(f) == ~f.skip /\ ~IsPrivate(f.name) /\ compileInternal(f.wrap, f.leaf).err

\* C21: compiling a struct type with a field that is not skipped and whose
\* type cannot be compiled returns an error.
C21_CompileFailsAsAWhole ==
    (fn.phase = "out" /\ fn.ty.struct /\ \E i \in 1..Len(fn.ty.fields) : Uncompilable(fn.ty.fields[i]))
        => fn.out.err

---------------------------------------------------------------------------
\* what a drive returns from the final entry e: the stored offset with the
\* stored value, or the stored failure with the stored error
StoredOutcome(e) ==
    <<e.new_loc,
      IF e.new_loc >= 0 THEN e.value ELSE [Location |-> e.err_loc, Message |-> e.msg]>>

---------------------------------------------------------------------------
\* the drive k.key has found a probing entry: the offset is marked, the entry
\* is a failure seed of level 1 and the drive has failed
DetectedRecursion(k) ==
    /\ k.key[2] \in k.marked
    /\ ~k.after.parsed /\ k.after.recursionLevel = 1 /\ k.after.new_loc < 0
    /\ k.l < 0

\* the drive k.key has found a seed: it has returned the seed
ReturnedSeed(k) ==
    /\ k.after = k.before
    /\ <<k.l, IF k.l >= 0 THEN k.v ELSE k.err>> = StoredOutcome(k.before)

\* C23: a drive that finds a probing entry marks the offset as recursive,
\* makes the entry a failure seed of recursion level 1 and fails; a drive
\* that finds a seeded entry returns the seed; neither invokes the node.
C23_LookupProtocol ==
    phase = "done" =>
        \A k \in hist.looks :
            /\ k.calls = 0
            /\ IF k.before.recursionLevel = 0 THEN DetectedRecursion(k) ELSE ReturnedSeed(k)

\* one Parse has found a probing entry and, later, a seed that is a match
C23_Witness ==
    /\ phase = "done" /\ ret.panic = NoPanic
    /\ \E k \in hist.looks : k.before.recursionLevel = 0
    /\ \E k \in hist.looks : k.before.recursionLevel >= 1 /\ k.l > k.key[2]

---------------------------------------------------------------------------
\* C24: a FOLLOWED_BY or NOT_ANY field that lets the sequence go on returns
\* the offset at which it has started, whatever its parser has consumed and
\* with no white space skipped; FOLLOWED_BY fails iff its parser fails and
\* NOT_ANY fails iff its parser succeeds.
C24_LookaheadKeepsOffset ==
    phase = "done" =>
        \A a \in hist.aheads :
            /\ a[4] >= 0 => a[4] = a[2]
            /\ a[1] = fieldFollowedBy => (a[4] < 0 <=> a[3] < 0)
            /\ a[1] = fieldNotAny => (a[4] < 0 <=> a[3] >= 0)

\* one Parse in which a FOLLOWED_BY field has passed over a match that has
\* consumed input and a NOT_ANY field has failed over a match
C24_Witness ==
    /\ phase = "done" /\ ret.panic = NoPanic
    /\ \E a \in hist.aheads : a[1] = fieldFollowedBy /\ a[3] > a[2] /\ a[4] = a[2]
    /\ \E a \in hist.aheads : a[1] = fieldNotAny /\ a[3] >= 0 /\ a[4] < 0

---------------------------------------------------------------------------
\* the greatest error offset among the failures of the branches
GreatestOffset(seen) ==
    CHOOSE m \in {seen[i].Location : i \in 1..Len(seen)} :
        \A i \in 1..Len(seen) : seen[i].Location <= m

\* the last branch, in the order of declaration, that has failed at offset m
LastAt(seen, m) ==
    CHOOSE i \in 1..Len(seen) :
        /\ seen[i].Location = m
        /\ \A j \in (i + 1)..Len(seen) : seen[j].Location # m

\* C25: when every branch of a FirstOf fails, the error surfaced is the
\* failure of the branch with the greatest error offset, and among several
\* branches that fail at that offset the one of the last of them.
C25_FirstOfError ==
    phase = "done" =>
        \A e \in hist.exhausted : e[4] = e[3][LastAt(e[3], GreatestOffset(e[3]))]

---------------------------------------------------------------------------
\* the drive k has read the seed of k.key while the parser of key was
\* running, between its first invocation and the moment its entry became
\* final (from and to count the ParseValue calls)
ReadWithin(k, key, to) ==
    /\ k.key # key /\ k.key[2] = key[2] /\ k.before.recursionLevel >= 1
    /\ k.at <= to
    /\ \E s \in hist.starts : s[1] = key /\ s[2] < k.at

\* the seed the drive k has read is not what its rule has ended with
SeedChanged(k) ==
    k.key \in DOMAIN ctx.packrat /\ ctx.packrat[k.key].new_loc # k.l

\* C26: no entry becomes final with a result for which another rule's seed
\* at the same offset was read while that seed was still growing and has
\* changed afterwards; for A <- B 'x' / 'a', B <- B 'y' / A on the input ax
\* the entry of B at offset 0 is not final as a failure and A matches ax.
C26_FinalsUnderMutualRecursion ==
    (phase = "done" /\ ret.panic = NoPanic) =>
        /\ \A f \in hist.finals :
              \A k \in hist.looks : ReadWithin(k, f[1], f[3]) => ~SeedChanged(k)
        /\ (root = MA /\ str = <<"a", "x">>) =>
              /\ ret.l = 2
              /\ ~(\E f \in hist.finals : f[1] \in {Key(MB, 0), Key(PtrB, 0)} /\ f[2].new_loc < 0)

---------------------------------------------------------------------------
\* the keys at which a left recursion was detected: the heads
HeadKeys == {k.key : k \in {x \in hist.looks : x.before.recursionLevel = 0}}

\* C27 as stated: when Parse returns without a panic every entry of the
\* table is final, and the table holds no entry of a parser that is not a
\* head at an offset of the recursive locations, and none but those of
\* heads when packrat is disabled.
C27_NothingAtRecursiveLocations ==
    (phase = "done" /\ ret.panic = NoPanic) =>
        \A k \in DOMAIN ctx.packrat :
            /\ ctx.packrat[k].parsed
            /\ k \in HeadKeys \/ (params.PackratEnabled /\ k[2] \notin ctx.recursiveLocations)

\* C27, amended: when Parse returns without a panic every entry of the
\* table is final, and no entry is left of a parse that was not a head and
\* returned when its offset was already a recursive location, or with
\* packrat disabled; an entry that became final before a left recursion
\* was detected at its offset stays.
C27_TableAtReturn ==
    (phase = "done" /\ ret.panic = NoPanic) =>
        /\ \A k \in DOMAIN ctx.packrat : ctx.packrat[k].parsed
        /\ \A e \in hist.plains :
              (e[2] \/ ~params.PackratEnabled) =>
                  (e[1] \notin DOMAIN ctx.packrat \/ e[1] \in HeadKeys)

\* a Parse with packrat enabled has returned with the final entry of a head
\* and, at the same offset, one that is older than the detection, while the
\* entries of the parses that returned after the detection are gone
C27_Witness ==
    /\ phase = "done" /\ ret.panic = NoPanic /\ params.PackratEnabled
    /\ \E e \in hist.plains : e[2] /\ e[1] \notin DOMAIN ctx.packrat
    /\ \E k \in DOMAIN ctx.packrat : k \in HeadKeys
    /\ \E k \in DOMAIN ctx.packrat : k \notin HeadKeys /\ k[2] \in ctx.recursiveLocations

---------------------------------------------------------------------------
\* C28: a primitive parser called at the end of the input returns a match
\* or a failure with a message, and does not die of a run-time panic; the
\* parser of quoted strings among them.
C28_PrimitivesAtEndOfInput ==
    (fn.phase = "out" /\ fn.loc = Len(fn.s)) =>
        /\ fn.out.panic = NoPanic
        /\ fn.out.l >= 0 \/ fn.out.msg # NoErr

---------------------------------------------------------------------------
\* the literal at the start of s, alone
LiteralAlone(s) == SubStr(s, 0, LitEnd(s, 0))

\* C29: for an unsigned slot, a literal whose value fits the slot is
\* accepted with that value when it ends the input, and as well when bytes
\* that are not digits of its base follow it, whatever bits are set in the
\* accumulator.
C29_AcceptanceIgnoresWhatFollows ==
    (num.phase = "out" /\ ~num.signed /\ LitForm(num.s, 0) # 0
        /\ Fits(LiteralValue(num.s, FALSE), num.size, FALSE)) =>
        /\ parseUint64(LiteralAlone(num.s), 0, num.size).l = LitEnd(num.s, 0)
        /\ parseUint64(LiteralAlone(num.s), 0, num.size).v = LiteralValue(num.s, FALSE)
        /\ num.l = LitEnd(num.s, 0)
        /\ num.v = LiteralValue(num.s, FALSE)

---------------------------------------------------------------------------
\* the slice has returned e after the member behind the delimiter d failed
AfterDelimiter(e, d) == d[1] = e[1] /\ d[2] = e[2] /\ d[4] = e[3]

\* C30: a slice with a delimiter that ends because the member after a
\* matched delimiter fails returns the offset after its last member and the
\* white space behind it, which is the offset of that delimiter.
C30_NoTrailingDelimiter ==
    (phase = "done" /\ ret.panic = NoPanic) =>
        \A e \in hist.slends : \A d \in hist.delims : AfterDelimiter(e, d) => e[4] = d[3]

====
